---- MODULE Spec2Model ----
(***************************************************************************)
(* The step sequencer of Clarity (src/sequencer.js): the pattern parser,   *)
(* the tick scheduler with its per-oscillator tables of tied voices, and   *)
(* the timers that drive it.                                               *)
(*                                                                         *)
(* Text is modelled as a sequence of lines; a line is a sequence of words; *)
(* a word is a sequence of one-character strings, so that the token        *)
(* grammar is computed character by character as the regular expressions   *)
(* of the source compute it.  A frequency is represented by the MIDI       *)
(* number m it is computed from (it stands for 440 * 2^((m - 69) / 12)).   *)
(***************************************************************************)
EXTENDS Integers, Sequences, FiniteSets, TLC

\* ------------------------------------------------------------------------
\* Bounds of the model
\* ------------------------------------------------------------------------
\* voices the start callback may hand out in one behaviour
MaxHandles == 4
\* swing one-shot timers that may be pending at once
MaxPending == 2

\* ------------------------------------------------------------------------
\* Values of the source language
\* ------------------------------------------------------------------------
\* JavaScript null / a failed match
Null == [null |-> TRUE]

\* JavaScript NaN, the value of n % 0: a number outside every range the
\* cursor can otherwise take
NaN == -2

IsNum(x) == x # NaN

\* a % b on numbers; NaN when an operand is NaN or the divisor is 0
JsMod(a, b) ==
    IF ~IsNum(a) \/ ~IsNum(b) THEN NaN
    ELSE IF b = 0 THEN NaN
    ELSE a % b

\* a < b on numbers; false when an operand is NaN
JsLt(a, b) == IsNum(a) /\ IsNum(b) /\ a < b

\* a + b on numbers; NaN when an operand is NaN
JsAdd(a, b) == IF IsNum(a) /\ IsNum(b) THEN a + b ELSE NaN

\* ------------------------------------------------------------------------
\* Characters
\* ------------------------------------------------------------------------
Digits == {"0", "1", "2", "3", "4", "5", "6", "7", "8", "9"}

LowerLetters == {"a", "b", "c", "d", "e", "f", "g"}

UpperLetters == {"A", "B", "C", "D", "E", "F", "G"}

\* String.prototype.toLowerCase on one character
ToLower(c) ==
    CASE c = "A" -> "a" [] c = "B" -> "b" [] c = "C" -> "c" [] c = "D" -> "d"
      [] c = "E" -> "e" [] c = "F" -> "f" [] c = "G" -> "g" [] OTHER -> c

DigitVal(c) ==
    CASE c = "0" -> 0 [] c = "1" -> 1 [] c = "2" -> 2 [] c = "3" -> 3
      [] c = "4" -> 4 [] c = "5" -> 5 [] c = "6" -> 6 [] c = "7" -> 7
      [] c = "8" -> 8 [] OTHER -> 9

\* parseInt(s, 10) of a non-empty run of digits
RECURSIVE ParseInt(_)
ParseInt(s) ==
    IF Len(s) = 0 THEN 0
    ELSE 10 * ParseInt(SubSeq(s, 1, Len(s) - 1)) + DigitVal(s[Len(s)])

\* the index after the longest run of digits of t that starts at index i
RECURSIVE DigitsEnd(_, _)
DigitsEnd(t, i) ==
    IF i <= Len(t) /\ t[i] \in Digits THEN DigitsEnd(t, i + 1) ELSE i

\* ------------------------------------------------------------------------
\* Token parser
\* ------------------------------------------------------------------------
\* a conversion that knows sharps but no flats
NoteToFrequencySharpOnly(letter, accidental, octave) ==
    LET l == ToLower(letter)
        base == CASE l = "c" -> 0 [] l = "d" -> 2 [] l = "e" -> 4 [] l = "f" -> 5
                  [] l = "g" -> 7 [] l = "a" -> 9 [] OTHER -> 11
    IN  (octave + 1) * 12 + base + (IF accidental = "#" THEN 1 ELSE 0)

\* noteMap and the accidental tests of _noteToFrequency; the result is the
\* MIDI number that the frequency is computed from
NoteToFrequency(letter, accidental, octave) ==
    LET l == ToLower(letter)
        base == CASE l = "c" -> 0 [] l = "d" -> 2 [] l = "e" -> 4 [] l = "f" -> 5
                  [] l = "g" -> 7 [] l = "a" -> 9 [] OTHER -> 11
        semitone == base + (IF accidental = "#" THEN 1 ELSE 0)
                         - (IF accidental = "b" THEN 1 ELSE 0)
    IN  (octave + 1) * 12 + semitone

\* the match of /^([a-g][#b]?\d)/i at the head of token t: the index after
\* it and the accidental ("" when absent), or Null
NoteHead(t) ==
    IF Len(t) >= 2 /\ t[1] \in (LowerLetters \cup UpperLetters) /\ t[2] \in Digits
    THEN [next |-> 3, accidental |-> "", octave |-> DigitVal(t[2])]
    ELSE IF Len(t) >= 3 /\ t[1] \in (LowerLetters \cup UpperLetters)
            /\ t[2] \in {"#", "b", "B"} /\ t[3] \in Digits
    THEN [next |-> 4, accidental |-> t[2], octave |-> DigitVal(t[3])]
    ELSE Null

\* an optional modifier (?:<mark>(\d+))? of token t at index i: the index
\* after it and its digits (<<>> when the modifier is absent)
OptModifier(t, i, mark) ==
    IF i <= Len(t) /\ t[i] = mark /\ DigitsEnd(t, i + 1) > i + 1
    THEN [next |-> DigitsEnd(t, i + 1), str |-> SubSeq(t, i + 1, DigitsEnd(t, i + 1) - 1)]
    ELSE [next |-> i, str |-> <<>>]

\* the object _parseNoteWithModifiers returns (lines 212-219) for a token
\* whose note ends before index next, with the digits of its velocity and
\* of its gate (<<>> when it has none)
NoteObject(token, next, accidental, octave, velocityStr, gateStr, tieStr) ==
    [noteName |-> [i \in 1..(next - 1) |-> ToLower(token[i])],
     frequency |-> NoteToFrequency(token[1], accidental, octave),
     velocity |-> IF velocityStr # <<>> THEN ParseInt(velocityStr) ELSE 100,
     gate |-> IF gateStr # <<>> THEN ParseInt(gateStr) ELSE 100,
     tie |-> tieStr,
     slideTo |-> Null]

\* the end of the match of line 189: after the gate comes an optional "~"
\* and the end of the token
NoteTail(token, head, vel, gat) ==
    IF gat.next = Len(token) + 1
    THEN NoteObject(token, head.next, head.accidental, head.octave, vel.str, gat.str, FALSE)
    ELSE IF gat.next = Len(token) /\ token[gat.next] = "~"
    THEN NoteObject(token, head.next, head.accidental, head.octave, vel.str, gat.str, TRUE)
    ELSE Null

NoteGate(token, head, vel) == NoteTail(token, head, vel, OptModifier(token, vel.next, ":"))

NoteVelocity(token, head) == NoteGate(token, head, OptModifier(token, head.next, "@"))

\* _parseNoteWithModifiers: the note of a token without slide, or Null
ParseNoteWithModifiers(token) ==
    IF NoteHead(token) = Null THEN Null ELSE NoteVelocity(token, NoteHead(token))

\* the split of /^(.+?)>(.+)$/: the least k >= 1 with token[k + 1] = ">" and
\* something after it, or 0 when the token has no such place
SlideSplit(token) ==
    IF \E k \in 1..(Len(token) - 2) : token[k + 1] = ">"
    THEN CHOOSE k \in 1..(Len(token) - 2) :
           /\ token[k + 1] = ">"
           /\ \A j \in 1..(k - 1) : token[j + 1] # ">"
    ELSE 0

\* a slide that keeps the gate and the tie written on its left side
SlideResultAsWritten(fromNote, toNote) ==
    IF fromNote = Null \/ toNote = Null THEN Null
    ELSE [fromNote EXCEPT
            !.slideTo = [noteName |-> toNote.noteName,
                         frequency |-> toNote.frequency,
                         velocity |-> toNote.velocity]]

\* the result of a slide (lines 159-175)
SlideResult(fromNote, toNote) ==
    IF fromNote = Null \/ toNote = Null THEN Null
    ELSE [fromNote EXCEPT !.tie = TRUE, !.gate = 100,
            !.slideTo = [noteName |-> toNote.noteName,
                         frequency |-> toNote.frequency,
                         velocity |-> toNote.velocity]]

SlideAt(token, k) ==
    SlideResult(ParseNoteWithModifiers(SubSeq(token, 1, k)),
                ParseNoteWithModifiers(SubSeq(token, k + 2, Len(token))))

\* _parseSingleNote: a note with an optional slide target, or Null
ParseSingleNote(token) ==
    IF SlideSplit(token) > 0 THEN SlideAt(token, SlideSplit(token))
    ELSE ParseNoteWithModifiers(token)

\* index of the first comma of s, 0 when it has none
FirstComma(s) ==
    IF \E i \in 1..Len(s) : s[i] = ","
    THEN CHOOSE i \in 1..Len(s) : s[i] = "," /\ \A j \in 1..(i - 1) : s[j] # ","
    ELSE 0

\* inner.split(','): the pieces of s between commas
RECURSIVE SplitComma(_)
SplitComma(s) ==
    IF FirstComma(s) = 0 THEN <<s>>
    ELSE <<SubSeq(s, 1, FirstComma(s) - 1)>>
           \o SplitComma(SubSeq(s, FirstComma(s) + 1, Len(s)))

\* filter(n => n !== null) on one element
NotNull(n) == IF n = Null THEN <<>> ELSE <<n>>

\* the notes of a chord's pieces, the invalid pieces filtered out
RECURSIVE ChordNotes(_)
ChordNotes(pieces) ==
    IF pieces = <<>> THEN <<>>
    ELSE NotNull(ParseSingleNote(Head(pieces))) \o ChordNotes(Tail(pieces))

Rest == [type |-> "rest"]

\* a chord step without the test for zero notes
ChordStepNoRest(notes) == [type |-> "chord", notes |-> notes]

\* the step of a chord token's notes (lines 124-131)
ChordStep(notes) == IF Len(notes) = 0 THEN Rest ELSE [type |-> "chord", notes |-> notes]

\* the step of a single note (lines 136-143)
NoteStep(note) ==
    IF note = Null THEN Rest
    ELSE [type |-> "note", noteName |-> note.noteName,
          frequency |-> note.frequency, velocity |-> note.velocity,
          gate |-> note.gate, tie |-> note.tie, slideTo |-> note.slideTo]

\* _parseStep: the step of one token
ParseStep(token) ==
    IF token = <<"-">> THEN Rest
    ELSE IF Len(token) >= 1 /\ token[1] = "[" /\ token[Len(token)] = "]"
    THEN ChordStep(ChordNotes(SplitComma(SubSeq(token, 2, Len(token) - 1))))
    ELSE NoteStep(ParseSingleNote(token))

\* ------------------------------------------------------------------------
\* Pattern parser
\* ------------------------------------------------------------------------
\* A line of text, trimmed, is [head, name, words]: head is its first word
\* in lower case (the keyword regular expressions ignore case), words are
\* the words after it, and name is the text after an "oscillator" head.
\* A track's oscillator is a name, or NoName for JavaScript null: the
\* source tests it only with ||, which takes null and "" alike.
NoName == ""

Line(head, name, words) == [head |-> head, name |-> name, words |-> words]

AllDigits(w) == Len(w) >= 1 /\ DigitsEnd(w, 1) = Len(w) + 1

Min(a, b) == IF a < b THEN a ELSE b

Max(a, b) == IF a > b THEN a ELSE b

\* stepTokens.map(token => this._parseStep(token))
ParseSteps(words) == [i \in 1..Len(words) |-> ParseStep(words[i])]

\* a pass that takes bpm and swing lines only before the first track
ParseLineGlobalsFirst(st, line) ==
    IF line.head = "bpm" /\ Len(line.words) = 1 /\ AllDigits(line.words[1])
    THEN IF st.tracks = <<>> THEN [st EXCEPT !.bpm = ParseInt(line.words[1])] ELSE st
    ELSE IF line.head = "swing" /\ Len(line.words) = 1 /\ AllDigits(line.words[1])
    THEN IF st.tracks = <<>>
         THEN [st EXCEPT !.swing = Max(0, Min(100, ParseInt(line.words[1])))] ELSE st
    ELSE IF line.head = "oscillator" /\ line.name # ""
    THEN [st EXCEPT !.tracks = Append(@, [oscillator |-> line.name, steps |-> <<>>]),
                    !.currentTrack = Len(st.tracks) + 1]
    ELSE IF line.head = "sequence" /\ Len(line.words) >= 1
    THEN IF st.currentTrack # 0
         THEN [st EXCEPT !.tracks[st.currentTrack].steps = ParseSteps(line.words)]
         ELSE [st EXCEPT !.tracks =
                 Append(@, [oscillator |-> NoName, steps |-> ParseSteps(line.words)])]
    ELSE st

\* one pass of the loop over the lines: st is [bpm, swing, tracks,
\* currentTrack], currentTrack the index in tracks of the open track, 0 for null
ParseLine(st, line) ==
    IF line.head = "bpm" /\ Len(line.words) = 1 /\ AllDigits(line.words[1])
    THEN [st EXCEPT !.bpm = ParseInt(line.words[1])]
    ELSE IF line.head = "swing" /\ Len(line.words) = 1 /\ AllDigits(line.words[1])
    THEN [st EXCEPT !.swing = Max(0, Min(100, ParseInt(line.words[1])))]
    ELSE IF line.head = "oscillator" /\ line.name # ""
    THEN [st EXCEPT !.tracks = Append(@, [oscillator |-> line.name, steps |-> <<>>]),
                    !.currentTrack = Len(st.tracks) + 1]
    ELSE IF line.head = "sequence" /\ Len(line.words) >= 1
    THEN IF st.currentTrack # 0
         THEN [st EXCEPT !.tracks[st.currentTrack].steps = ParseSteps(line.words)]
         ELSE [st EXCEPT !.tracks =
                 Append(@, [oscillator |-> NoName, steps |-> ParseSteps(line.words)])]
    ELSE st

RECURSIVE ParseLines(_, _)
ParseLines(st, lines) ==
    IF lines = <<>> THEN st
    ELSE ParseLines(ParseLine(st, Head(lines)), Tail(lines))

\* Math.max(...tracks.map(t => t.steps.length), 0)
RECURSIVE MaxStepsOf(_)
MaxStepsOf(ts) ==
    IF ts = <<>> THEN 0 ELSE Max(Len(Head(ts).steps), MaxStepsOf(Tail(ts)))

\* what parse commits (lines 82-85)
Pattern(st) ==
    [bpm |-> st.bpm, swing |-> st.swing, tracks |-> st.tracks,
     maxSteps |-> MaxStepsOf(st.tracks)]

\* parse(text): the bpm, swing, tracks and maxSteps it commits
ParseText(text) ==
    Pattern(ParseLines([bpm |-> 120, swing |-> 50, tracks |-> <<>>,
                        currentTrack |-> 0], text))

\* ------------------------------------------------------------------------
\* Scheduler state
\* ------------------------------------------------------------------------
VARIABLES
    bpm,          \* this.bpm
    swing,        \* this.swing
    tracks,       \* this.tracks: sequence of [oscillator, steps]
    maxSteps,     \* this.maxSteps
    currentStep,  \* this.currentStep: a number or NaN
    isPlaying,    \* this.isPlaying
    intervalId,   \* this.intervalId: 0 for null, 1 for the live recurring timer
    intervals,    \* the number of recurring timers that are live (set by
                  \* setInterval and not cleared)
    stepDuration, \* the stepDuration the live recurring timer was created with,
                  \* in microseconds
    activeNotes,  \* this.activeNotes: the Map trackKey -> Map noteName -> noteId,
                  \* as sequences in insertion order: <<[key, notes]>> with
                  \* notes = <<[noteName, noteId]>>
    pending,      \* the setTimeout(executeStep, swingDelay) calls not yet run
    nextId,       \* the next handle the start callback returns
    voices,       \* history: for each handle handed out, its note name, its tie
                  \* flag and how often it was passed to the stop callback
    cmds,         \* history: the callbacks invoked by the last operation, in order
    lastOp,       \* history: the last operation
    engine,       \* the AudioEngine (part_003): its store, its master nodes, its
                  \* notes and the audio graph they are built in
    single        \* the single-voice Sequencer of part_001 driven by the same
                  \* operations: its activeNotes (trackKey -> noteId), the next
                  \* handle its start callback returns, the callbacks its last
                  \* operation invoked

vars == <<bpm, swing, tracks, maxSteps, currentStep, isPlaying, intervalId, intervals,
          stepDuration, activeNotes, pending, nextId, voices, cmds, lastOp,
          engine, single>>

\* the variables of the sequencer
seqVars == <<bpm, swing, tracks, maxSteps, currentStep, isPlaying, intervalId, intervals,
             stepDuration, activeNotes, pending, nextId, voices, cmds, lastOp,
             single>>

\* the value stop() hands to onStepChange
Stopped == -1

\* (60 / bpm) * 1000 / 4 milliseconds, in whole microseconds
StepDuration(b) == 15000000 \div b

\* the invocation of a callback: op is "start" (triggerNote), "stop"
\* (_stopNote) or "notify" (onStepChange)
Cmd(op, track, noteName, noteId, tie, step) ==
    [op |-> op, track |-> track, noteName |-> noteName, noteId |-> noteId,
     tie |-> tie, step |-> step]

\* ------------------------------------------------------------------------
\* _playCurrentStep
\* ------------------------------------------------------------------------
\* The operators below thread one record st through the code they model:
\*   st.activeNotes, st.pending, st.nextId, st.voices, st.cmds as the
\*   variables of the same names, and st.notes, the table of the track in
\*   work (trackActiveNotes).
Work(an, ps, id, vs) ==
    [activeNotes |-> an, pending |-> ps, nextId |-> id, voices |-> vs,
     cmds |-> <<>>, notes |-> <<>>]

\* track.oscillator || '_default'
TrackKey(track) == IF track.oscillator = NoName THEN "_default" ELSE track.oscillator

\* _getStepNotes
GetStepNotes(step) ==
    IF step.type = "rest" THEN <<>>
    ELSE IF step.type = "chord" THEN step.notes
    ELSE IF step.type = "note"
    THEN <<[noteName |-> step.noteName, frequency |-> step.frequency,
            velocity |-> step.velocity, gate |-> step.gate, tie |-> step.tie,
            slideTo |-> step.slideTo]>>
    ELSE <<>>

\* a lookup that lets a short track loop over its own steps
StepAtWrapped(track, cur) ==
    IF IsNum(cur) /\ Len(track.steps) > 0
    THEN track.steps[(cur % Len(track.steps)) + 1] ELSE Rest

\* the step of a track at the cursor (lines 302-304)
StepAt(track, cur) ==
    IF JsLt(cur, Len(track.steps)) THEN track.steps[cur + 1] ELSE Rest

\* the previous step of a track at the cursor (lines 305-307)
PrevStepAt(track, cur) ==
    IF JsLt(0, cur) /\ JsLt(JsAdd(cur, -1), Len(track.steps))
    THEN track.steps[cur] ELSE Rest

\* Map.get(noteName) of the lookup built by set() over notes: the last note
\* of that name, or Null
ByName(notes, noteName) ==
    IF \E i \in 1..Len(notes) : notes[i].noteName = noteName
    THEN notes[CHOOSE i \in 1..Len(notes) :
                 /\ notes[i].noteName = noteName
                 /\ \A j \in (i + 1)..Len(notes) : notes[j].noteName # noteName]
    ELSE Null

\* shouldContinue = prevNote?.tie && currentNote
ShouldContinue(prevNote, currentNote) ==
    prevNote # Null /\ prevNote.tie /\ currentNote # Null

\* index in the outer Map of the table of a key, 0 when it has none
TableIndex(an, key) ==
    IF \E i \in 1..Len(an) : an[i].key = key
    THEN CHOOSE i \in 1..Len(an) : an[i].key = key
    ELSE 0

\* this.activeNotes after "if (!has(trackKey)) set(trackKey, new Map())"
WithTable(an, key) ==
    IF TableIndex(an, key) = 0 THEN Append(an, [key |-> key, notes |-> <<>>]) ELSE an

\* this.activeNotes.get(trackKey), as the entries the stop loop visits
TableOf(an, key) == IF TableIndex(an, key) = 0 THEN <<>> ELSE an[TableIndex(an, key)].notes

HasNote(notes, noteName) == \E i \in 1..Len(notes) : notes[i].noteName = noteName

\* an entry that does not continue (lines 345-352): it is passed to
\* _stopNote and deleted
StopEntry(st, e, trackIdx) ==
    [st EXCEPT !.voices[e.noteId].stops = @ + 1,
               !.cmds = Append(@, Cmd("stop", trackIdx, e.noteName, e.noteId, FALSE, 0))]

\* the loop over trackActiveNotes (lines 336-353); st.notes collects the
\* entries that stay
RECURSIVE StopLoop(_, _, _, _, _)
StopLoop(st, entries, prevNotes, currentNotes, trackIdx) ==
    IF entries = <<>> THEN st
    ELSE StopLoop(IF ShouldContinue(ByName(prevNotes, Head(entries).noteName),
                                    ByName(currentNotes, Head(entries).noteName))
                  THEN [st EXCEPT !.notes = Append(@, Head(entries))]
                  ELSE StopEntry(st, Head(entries), trackIdx),
                  Tail(entries), prevNotes, currentNotes, trackIdx)

\* a table that tracks every started note, tied or not
TrackedAlways(notes, note, noteId) ==
    Append(notes, [noteName |-> note.noteName, noteId |-> noteId])

\* what a started note leaves in the table (lines 385-388): the note is
\* tracked when it is tied
Tracked(notes, note, noteId) ==
    IF note.tie THEN Append(notes, [noteName |-> note.noteName, noteId |-> noteId])
    ELSE notes

\* the start of one note (lines 363-388): the callback hands out the next
\* handle
StartNote(st, note, trackIdx) ==
    [st EXCEPT !.notes = Tracked(@, note, st.nextId),
               !.voices = Append(@, [noteName |-> note.noteName, tie |-> note.tie,
                                     stops |-> 0]),
               !.cmds = Append(@, Cmd("start", trackIdx, note.noteName, st.nextId,
                                      note.tie, 0)),
               !.nextId = @ + 1]

\* the loop over currentNotes (lines 356-389): a note whose name is in the
\* table is skipped, every other is started
RECURSIVE StartLoop(_, _, _)
StartLoop(st, currentNotes, trackIdx) ==
    IF currentNotes = <<>> THEN st
    ELSE StartLoop(IF HasNote(st.notes, Head(currentNotes).noteName) THEN st
                   ELSE StartNote(st, Head(currentNotes), trackIdx),
                   Tail(currentNotes), trackIdx)

\* the table of the track in work written back under its key
CloseTable(st, key) ==
    [st EXCEPT !.activeNotes[TableIndex(st.activeNotes, key)].notes = st.notes,
               !.notes = <<>>]

\* the loops of one track in the other order: starts first, stops after
StartThenStop(st, entries, prevNotes, currentNotes, trackIdx) ==
    StopLoop(StartLoop(st, currentNotes, trackIdx),
             entries, prevNotes, currentNotes, trackIdx)

\* the stop loop, then the start loop, of one track
StopThenStart(st, entries, prevNotes, currentNotes, trackIdx) ==
    StartLoop(StopLoop(st, entries, prevNotes, currentNotes, trackIdx),
              currentNotes, trackIdx)

\* the body of the loop over this.tracks for one track (lines 298-392)
ExecTrack(st, track, trackIdx, cur) ==
    CloseTable(
        StopThenStart([st EXCEPT !.activeNotes = WithTable(@, TrackKey(track)),
                                 !.notes = <<>>],
                      TableOf(st.activeNotes, TrackKey(track)),
                      GetStepNotes(PrevStepAt(track, cur)),
                      GetStepNotes(StepAt(track, cur)), trackIdx),
        TrackKey(track))

\* executeStep (lines 297-393): the tracks in declaration order, from track
\* number trackIdx on
RECURSIVE ExecuteFrom(_, _, _, _)
ExecuteFrom(st, ts, trackIdx, cur) ==
    IF trackIdx > Len(ts) THEN st
    ELSE ExecuteFrom(ExecTrack(st, ts[trackIdx], trackIdx, cur), ts, trackIdx + 1, cur)

ExecuteStep(st, ts, cur) == ExecuteFrom(st, ts, 1, cur)

\* a swingDelay without the test for an odd step
SwingDelayEveryStep(cur, sw, dur) == ((sw - 50) * dur) \div 100

\* swingDelay (lines 293-294), in microseconds
SwingDelay(cur, sw, dur) ==
    IF JsMod(cur, 2) = 1 THEN ((sw - 50) * dur) \div 100 ELSE 0

\* onStepChange(step)
Notify(st, step) == [st EXCEPT !.cmds = Append(@, Cmd("notify", 0, <<>>, 0, FALSE, step))]

\* setTimeout(executeStep, swingDelay); a timer set by a tick runs before
\* the next tick: its delay is at most half the interval.  The timer keeps,
\* as history, the cursor cur it was set at (executeStep itself reads
\* this.currentStep when it runs)
SetTimeout(st, delay, cur) ==
    [st EXCEPT !.pending = Append(@, [delay |-> delay, slack |-> 0, step |-> cur])]

\* a _playCurrentStep that notifies from inside executeStep: a deferred step
\* is notified when its timer runs
PlayCurrentStepNotifyLate(st, ts, cur, sw, dur) ==
    IF SwingDelay(cur, sw, dur) > 0
    THEN SetTimeout(st, SwingDelay(cur, sw, dur), cur)
    ELSE Notify(ExecuteStep(st, ts, cur), cur)

\* _playCurrentStep(triggerNote, stepDuration): the notes are triggered now
\* or by a one-shot timer, then the step is notified
PlayCurrentStep(st, ts, cur, sw, dur) ==
    Notify(IF SwingDelay(cur, sw, dur) > 0
           THEN SetTimeout(st, SwingDelay(cur, sw, dur), cur)
           ELSE ExecuteStep(st, ts, cur),
           cur)

\* ------------------------------------------------------------------------
\* Timers
\* ------------------------------------------------------------------------
\* A pending one-shot timer is [delay, slack, step]: delay is the swingDelay
\* it was set with; slack is the number of ticks of the live recurring timer
\* that can still run before it.  When the recurring timer is replaced by
\* one of interval dur, k of its ticks fit before a pending timer of delay d
\* exactly when k * dur < d.
Aged(ps, dur) == [i \in 1..Len(ps) |-> [ps[i] EXCEPT !.slack = (ps[i].delay - 1) \div dur]]

Ticked(ps) == [i \in 1..Len(ps) |-> [ps[i] EXCEPT !.slack = @ - 1]]

RemoveAt(s, i) == SubSeq(s, 1, i - 1) \o SubSeq(s, i + 1, Len(s))

\* a sequencer that never clears a recurring timer
ClearIntervalNever(id, live) == live

\* if (this.intervalId) clearInterval(this.intervalId), lines 261-263 and
\* 438-441: the number of live recurring timers after it
ClearInterval(id, live) == IF id # 0 THEN live - 1 ELSE live

\* _startInterval with this.bpm = b: the current step is played at once
\* with the new stepDuration (the recurring timer is replaced by the caller)
StartInterval(st, ts, cur, sw, b) ==
    PlayCurrentStep([st EXCEPT !.pending = Aged(@, StepDuration(b))],
                    ts, cur, sw, StepDuration(b))

\* a stop() that visits the first table only
FirstTableEntries(an) == IF an = <<>> THEN <<>> ELSE Head(an).notes

\* the handles stop() passes to _stopNote (lines 446-452): every value of
\* every table, in Map order
RECURSIVE AllEntries(_)
AllEntries(an) ==
    IF an = <<>> THEN <<>> ELSE Head(an).notes \o AllEntries(Tail(an))

RECURSIVE StopAll(_, _)
StopAll(st, entries) ==
    IF entries = <<>> THEN st
    ELSE StopAll(StopEntry(st, Head(entries), 0), Tail(entries))

\* ------------------------------------------------------------------------
\* Instrument configuration (the store the engine reads)
\* ------------------------------------------------------------------------
\* voices the engine may build in one behaviour
MaxVoices == 2
\* calls of stop() a voice may receive
MaxStopCalls == 2
\* calls of initializeMaster in one behaviour
MaxMasters == 2

\* an attribute that refers to a component by name
Ref(name) == [type |-> "component_ref", value |-> name]

\* distortionRef && distortionRef.type === 'component_ref'
IsRef(attr) == attr # Null /\ attr.type = "component_ref"

\* null where a number attribute is expected (_resolveValue returns null
\* for an attribute that is not set)
NoValue == -1

\* an oscillator component: its name and its pitch, distortion and release
\* attributes (Null for a reference that is not set); its volume, attack,
\* decay and sustain are not set
Layer(name, pitch, distortion, release) ==
    [name |-> name, pitch |-> pitch, distortion |-> distortion, release |-> release,
     volume |-> NoValue, attack |-> NoValue, decay |-> NoValue, sustain |-> NoValue]

\* an oscillator component or a master trigger with the envelope
\* attributes attack, decay, sustain, release and the volume set
WithEnvelope(component, volume, attack, decay, sustain, release) ==
    [component EXCEPT !.volume = volume, !.attack = attack, !.decay = decay,
                      !.sustain = sustain, !.release = release]

\* the master trigger's attributes
Master(filter, compressor, distortion, release) ==
    [filter |-> filter, compressor |-> compressor, distortion |-> distortion,
     release |-> release,
     volume |-> NoValue, attack |-> NoValue, decay |-> NoValue, sustain |-> NoValue]

\* a store: the oscillator components in their order, the names of the
\* other components, the master trigger
Store(oscillators, components, master) ==
    [oscillators |-> oscillators, components |-> components, master |-> master]

\* store.getComponent(name): the component of that name, or Null
GetComponent(store, name) ==
    IF name \in store.components THEN [name |-> name] ELSE Null

\* value || dflt on a number attribute: || takes null and 0 alike
OrDefault(value, dflt) == IF value = NoValue \/ value = 0 THEN dflt ELSE value

\* one oscillator, no references
StorePlain ==
    Store(<<Layer("lead", Null, Null, 0)>>, {}, Master(Null, Null, Null, 0))

\* two oscillators, the first with vibrato and distortion, and a master
\* with filter, compressor and distortion; every reference exists
StoreFull ==
    Store(<<Layer("lead", Ref("vib"), Ref("fuzz"), 300), Layer("bass", Null, Null, 800)>>,
          {"vib", "fuzz", "lp", "comp"},
          Master(Ref("lp"), Ref("comp"), Ref("fuzz"), 500))

\* an oscillator whose pitch and distortion references name no component
StoreLayerUnknown ==
    Store(<<Layer("lead", Ref("nolfo"), Ref("nofuzz"), 300)>>, {"lp"},
          Master(Ref("lp"), Null, Null, 200))

\* a master whose distortion reference names no component
StoreMasterUnknown ==
    Store(<<Layer("lead", Null, Null, 0)>>, {"comp"},
          Master(Null, Ref("comp"), Ref("nofuzz"), 0))

Stores == {StorePlain, StoreFull, StoreLayerUnknown, StoreMasterUnknown}

\* ------------------------------------------------------------------------
\* The audio graph
\* ------------------------------------------------------------------------
\* Nodes are numbered in the order of their creation; e.nodes[i] is the
\* kind of node i, the voice that created it (0 for the engine itself)
\* and whether stop() was called on it.  An edge [from, to, param] is a
\* connect() call: to is a node, or Destination; param is "" or the
\* AudioParam of the node the edge ends in.
Destination == 0

\* null where a node is expected
NoNode == -1

\* audioContext.create<Kind>() by an owner; the new node is NodeCount(e) after it
CreateNode(e, kind, owner) ==
    [e EXCEPT !.nodes = Append(@, [kind |-> kind, owner |-> owner, stopped |-> FALSE])]

NodeCount(e) == Len(e.nodes)

\* from.connect(to)
Connect(e, from, to) ==
    [e EXCEPT !.edges = @ \cup {[from |-> from, to |-> to, param |-> ""]}]

\* from.connect(to.<param>)
ConnectParam(e, from, to, param) ==
    [e EXCEPT !.edges = @ \cup {[from |-> from, to |-> to, param |-> param]}]

\* the five nodes of a distortion and their wiring (lines 252-277 and
\* 679-701); the node before them is number base
DistortionNodes(e, base, owner) ==
    Connect(Connect(Connect(Connect(Connect(
        CreateNode(CreateNode(CreateNode(CreateNode(CreateNode(e,
            "gain", owner), "gain", owner), "gain", owner), "gain", owner),
            "waveshaper", owner),
        base + 1, base + 4), base + 4, base + 2), base + 1, base + 5),
        base + 5, base + 3), base + 3, base + 2)

\* _createDistortionNode(componentName): the engine after it and what it
\* returns, { input, output } or Null
CreateDistortionNode(e, componentName, owner) ==
    IF GetComponent(e.store, componentName) = Null THEN [e |-> e, node |-> Null]
    ELSE [e |-> DistortionNodes(e, NodeCount(e), owner),
          node |-> [input |-> NodeCount(e) + 1, output |-> NodeCount(e) + 2]]

\* _createFilterNode / _createCompressorNode: the engine after it and the
\* node, or NoNode
CreateEffectNode(e, kind, componentName) ==
    IF GetComponent(e.store, componentName) = Null THEN [e |-> e, node |-> NoNode]
    ELSE [e |-> CreateNode(e, kind, 0), node |-> NodeCount(e) + 1]

\* a TypeError leaves the call where it is raised
Throw(e) == [e EXCEPT !.thrown = TRUE]

\* new AudioEngine(audioContext, store, schemas)
NewAudioEngine(store) ==
    [store |-> store, masterGain |-> NoNode, masterFilter |-> NoNode,
     masterCompressor |-> NoNode, masterDistortion |-> Null,
     activeNotes |-> <<>>, notes |-> <<>>, nodes |-> <<>>, edges |-> {},
     ramps |-> <<>>, masters |-> 0, thrown |-> FALSE]

\* ------------------------------------------------------------------------
\* initializeMaster
\* ------------------------------------------------------------------------
\* lines 41-48: the effect nodes are reset, a new master gain is connected
\* to the destination
MasterGainStage(e) ==
    Connect([CreateNode(e, "gain", 0) EXCEPT
                !.masterDistortion = Null, !.masterCompressor = NoNode,
                !.masterFilter = NoNode, !.masterGain = NodeCount(e) + 1,
                !.masters = @ + 1, !.thrown = FALSE],
            NodeCount(e) + 1, Destination)

\* lines 63-67 with the result r of _createFilterNode: connect() is called
\* on it, null or not
MasterFilterConnect(r) ==
    IF r.node = NoNode THEN Throw([r.e EXCEPT !.masterFilter = NoNode])
    ELSE Connect([r.e EXCEPT !.masterFilter = r.node], r.node, r.e.masterGain)

MasterFilterStage(e) ==
    IF IsRef(e.store.master.filter)
    THEN MasterFilterConnect(CreateEffectNode(e, "filter", e.store.master.filter.value))
    ELSE e

\* lines 70-78 with the result r of _createCompressorNode
MasterCompressorConnect(r) ==
    IF r.node = NoNode THEN Throw([r.e EXCEPT !.masterCompressor = NoNode])
    ELSE Connect([r.e EXCEPT !.masterCompressor = r.node], r.node,
                 IF r.e.masterFilter # NoNode THEN r.e.masterFilter ELSE r.e.masterGain)

MasterCompressorStage(e) ==
    IF e.thrown THEN e
    ELSE IF IsRef(e.store.master.compressor)
    THEN MasterCompressorConnect(
             CreateEffectNode(e, "compressor", e.store.master.compressor.value))
    ELSE e

\* lines 82-96 with the result r of _createDistortionNode: .output is read
\* from it, null or not
MasterDistortionConnect(r) ==
    IF r.node = Null THEN Throw([r.e EXCEPT !.masterDistortion = Null])
    ELSE Connect([r.e EXCEPT !.masterDistortion = r.node], r.node.output,
                 IF r.e.masterCompressor # NoNode THEN r.e.masterCompressor
                 ELSE IF r.e.masterFilter # NoNode THEN r.e.masterFilter
                 ELSE r.e.masterGain)

MasterDistortionStage(e) ==
    IF e.thrown THEN e
    ELSE IF IsRef(e.store.master.distortion)
    THEN MasterDistortionConnect(
             CreateDistortionNode(e, e.store.master.distortion.value, 0))
    ELSE e

\* initializeMaster(): the engine after it
InitializeMasterOf(e) ==
    MasterDistortionStage(MasterCompressorStage(MasterFilterStage(MasterGainStage(e))))

\* every note straight into the master gain, whatever stages exist
MasterInputGainOnly(e) == e.masterGain

\* the first node of the master chain (lines 101-104 and 147)
MasterInput(e) ==
    IF e.masterDistortion # Null THEN e.masterDistortion.input
    ELSE IF e.masterCompressor # NoNode THEN e.masterCompressor
    ELSE IF e.masterFilter # NoNode THEN e.masterFilter
    ELSE e.masterGain

\* ------------------------------------------------------------------------
\* NoteInstance
\* ------------------------------------------------------------------------
\* A note of e.notes is [noteName, oscillatorFilter, noteGain, oscillators,
\* lfos, layers, stopCalls, timers]: oscillators is the list of
\* { osc, envGain, releaseTime } (milliseconds), lfos the list of tracked
\* LFO nodes, layers the names of the oscillator components built (history),
\* stopCalls how often stop() was called and timers the delays of the
\* setTimeout calls of stop() that have not run.

\* _applyPitchModulation(oscillator, lfoName) for note v (lines 528-565)
ApplyPitchModulation(e, v, osc, lfoName) ==
    IF GetComponent(e.store, lfoName) = Null THEN e
    ELSE [ConnectParam(Connect(CreateNode(CreateNode(e, "oscillator", v), "gain", v),
                               NodeCount(e) + 1, NodeCount(e) + 2),
                       NodeCount(e) + 2, osc, "frequency")
            EXCEPT !.notes[v].lfos = Append(@, NodeCount(e) + 1)]

\* lines 473-486 with the result r of _createDistortionNode: the envelope
\* gain goes through the distortion, or straight to the note gain
LayerDistortionConnect(r, v, envGain) ==
    IF r.node # Null
    THEN Connect(Connect(r.e, envGain, r.node.input),
                 r.node.output, r.e.notes[v].noteGain)
    ELSE Connect(r.e, envGain, r.e.notes[v].noteGain)

LayerDistortionStage(e, v, layer, envGain) ==
    IF IsRef(layer.distortion)
    THEN LayerDistortionConnect(CreateDistortionNode(e, layer.distortion.value, v),
                                v, envGain)
    ELSE Connect(e, envGain, e.notes[v].noteGain)

\* gain values are held in ten-thousandths: volume / 100 * sustain / 100
\* is volume * sustain of them
FullScale == 10000

\* setValueAtTime(0, now), linearRampToValueAtTime(peak, now + attack),
\* linearRampToValueAtTime(sustainLevel, now + attack + decay) on the gain
\* of a node; the times are in milliseconds after now
Envelope(e, node, peak, sustainLevel, attack, decay) ==
    [e EXCEPT !.ramps = Append(@,
        [node |-> node,
         events |-> <<[value |-> 0, at |-> 0], [value |-> peak, at |-> attack],
                      [value |-> sustainLevel, at |-> attack + decay]>>])]

\* lines 488-508: the envelope of an oscillator, for a note of the
\* velocity 127 that createNote gives by default (this.velocity is 1)
LayerEnvelopeStage(e, layer, envGain) ==
    Envelope(e, envGain,
             OrDefault(layer.volume, 50) * (FullScale \div 100),
             OrDefault(layer.sustain, 100) * OrDefault(layer.volume, 50),
             OrDefault(layer.attack, 100), OrDefault(layer.decay, 100))

\* _applyMasterEnvelope() of note v (lines 569-586)
ApplyMasterEnvelope(e, v) ==
    Envelope(e, e.notes[v].noteGain, FullScale,
             OrDefault(e.store.master.sustain, 100) * (FullScale \div 100),
             OrDefault(e.store.master.attack, 100), OrDefault(e.store.master.decay, 100))

\* lines 512-517
LayerPitchStage(e, v, layer, osc) ==
    IF IsRef(layer.pitch) THEN ApplyPitchModulation(e, v, osc, layer.pitch.value)
    ELSE e

\* lines 519-523: the nodes are tracked
LayerTrack(e, v, layer, osc) ==
    [e EXCEPT !.notes[v].oscillators =
                  Append(@, [osc |-> osc, envGain |-> osc + 1,
                             releaseTime |-> OrDefault(layer.release, 500)]),
              !.notes[v].layers = Append(@, layer.name)]

\* the oscillator osc and its envelope gain osc + 1 are created and
\* connected (lines 440 and 469-470), then the stages above
LayerStages(e, v, layer, osc) ==
    LayerTrack(
        LayerPitchStage(
            LayerEnvelopeStage(
                LayerDistortionStage(
                    Connect(CreateNode(CreateNode(e, "oscillator", v), "gain", v),
                            osc, osc + 1),
                    v, layer, osc + 1),
                layer, osc + 1),
            v, layer, osc),
        v, layer, osc)

\* _createOscillator(oscComponent) for note v
CreateOscillator(e, v, layer) == LayerStages(e, v, layer, NodeCount(e) + 1)

\* a loop that creates every oscillator, whatever the filter
RECURSIVE CreateOscillatorsUnfiltered(_, _, _)
CreateOscillatorsUnfiltered(e, v, layers) ==
    IF layers = <<>> THEN e
    ELSE CreateOscillatorsUnfiltered(CreateOscillator(e, v, Head(layers)), v,
                                     Tail(layers))

\* _createOscillators: the loop over the oscillator components (lines
\* 424-434)
RECURSIVE CreateOscillators(_, _, _)
CreateOscillators(e, v, layers) ==
    IF layers = <<>> THEN e
    ELSE CreateOscillators(
             IF e.notes[v].oscillatorFilter # NoName
                /\ Head(layers).name # e.notes[v].oscillatorFilter
             THEN e
             ELSE CreateOscillator(e, v, Head(layers)),
             v, Tail(layers))

\* new NoteInstance(...)
NewNote(noteName, oscillatorFilter) ==
    [noteName |-> noteName, oscillatorFilter |-> oscillatorFilter,
     noteGain |-> NoNode, oscillators |-> <<>>, lfos |-> <<>>, layers |-> <<>>,
     stopCalls |-> 0, timers |-> <<>>]

\* Map.set(key, value) on a list of [key, value] in insertion order
MapSet(map, key, value) ==
    IF \E i \in 1..Len(map) : map[i].key = key
    THEN [i \in 1..Len(map) |->
            IF map[i].key = key THEN [key |-> key, value |-> value] ELSE map[i]]
    ELSE Append(map, [key |-> key, value |-> value])

\* start(destination) of note v (lines 408-420): the note gain, then the
\* oscillators, then the master envelope
StartNoteInstance(e, v, destination) ==
    ApplyMasterEnvelope(
        CreateOscillators(
            Connect([CreateNode(e, "gain", v) EXCEPT !.notes[v].noteGain = NodeCount(e) + 1],
                    NodeCount(e) + 1, destination),
            v, e.store.oscillators),
        v)

\* createNote(noteName, frequency, keyScope, oscillatorFilter, ...) at the
\* time now of Date.now(): the engine after it; the note it returns is the
\* last of e.notes
CreateNoteOf(e, noteName, oscillatorFilter, now) ==
    StartNoteInstance(
        [e EXCEPT !.notes = Append(@, NewNote(noteName, oscillatorFilter)),
                  !.activeNotes = MapSet(@, <<noteName, now>>, Len(e.notes) + 1),
                  !.thrown = FALSE],
        Len(e.notes) + 1, MasterInput(e))

\* the delay of the timer of stop() (lines 614-624), in milliseconds
RECURSIVE MaxRelease(_, _)
MaxRelease(m, oscillators) ==
    IF oscillators = <<>> THEN m
    ELSE MaxRelease(Max(m, Head(oscillators).releaseTime), Tail(oscillators))

\* NoteInstance.stop() of note v (lines 591-625): the release ramps are
\* set and the stop of the sources is scheduled
StopNoteInstance(e, v) ==
    [e EXCEPT !.notes[v].stopCalls = @ + 1,
              !.notes[v].timers =
                  Append(@, MaxRelease(OrDefault(e.store.master.release, 500),
                                       e.notes[v].oscillators) + 100),
              !.thrown = FALSE]

\* the first entry of the map that holds note v is deleted (lines 356-361)
DeleteNote(map, v) ==
    IF \E i \in 1..Len(map) : map[i].value = v
    THEN RemoveAt(map, CHOOSE i \in 1..Len(map) :
                           map[i].value = v /\ \A j \in 1..(i - 1) : map[j].value # v)
    ELSE map

\* stopNote(noteInstance)
StopNoteOf(e, v) ==
    [StopNoteInstance(e, v) EXCEPT !.activeNotes = DeleteNote(@, v)]

\* the callback of the timer of stop() (lines 619-624): stop() is called
\* on the oscillators and on the tracked LFOs of note v
StopSources(e, v) ==
    [e EXCEPT !.nodes =
        [i \in 1..Len(e.nodes) |->
            IF \/ \E k \in 1..Len(e.notes[v].oscillators) : e.notes[v].oscillators[k].osc = i
               \/ \E k \in 1..Len(e.notes[v].lfos) : e.notes[v].lfos[k] = i
            THEN [e.nodes[i] EXCEPT !.stopped = TRUE] ELSE e.nodes[i]],
              !.notes[v].timers = Tail(@)]

\* ------------------------------------------------------------------------
\* Inputs
\* ------------------------------------------------------------------------
Osc(name) == Line("oscillator", name, <<>>)

Seqn(words) == Line("sequence", "", words)

\* oscillator lead / sequence [c4~,e4~,g4] [c4~,e4~,a4]
TextChord ==
    <<Osc("lead"),
      Seqn(<< <<"[", "c", "4", "~", ",", "e", "4", "~", ",", "g", "4", "]">>,
              <<"[", "c", "4", "~", ",", "e", "4", "~", ",", "a", "4", "]">> >>)>>

\* sequence [c4~,g4] [c4~,a4] / sequence - -   (no oscillator line)
TextShared ==
    <<Seqn(<< <<"[", "c", "4", "~", ",", "g", "4", "]">>,
              <<"[", "c", "4", "~", ",", "a", "4", "]">> >>),
      Seqn(<< <<"-">>, <<"-">> >>)>>

\* oscillator lead   (no sequence line)
TextNoSteps == <<Osc("lead")>>

\* bpm 60 / swing 100 / oscillator lead / sequence c4~ e4 /
\* oscillator bass / sequence g2~ -
TextSwing ==
    <<Line("bpm", "", << <<"6", "0">> >>),
      Line("swing", "", << <<"1", "0", "0">> >>),
      Osc("lead"), Seqn(<< <<"c", "4", "~">>, <<"e", "4">> >>),
      Osc("bass"), Seqn(<< <<"g", "2", "~">>, <<"-">> >>)>>

Texts == {TextChord, TextShared, TextSwing}

\* the tempos setBpm is called with
BpmValues == {200}

\* ------------------------------------------------------------------------
\* Operations
\* ------------------------------------------------------------------------
Op(kind, noop) == [kind |-> kind, noop |-> noop]

\* the single-voice sequencer after its constructor (part_001 lines 5-18)
NewSingle == [activeNotes |-> <<>>, nextId |-> 1, cmds |-> <<>>]

\* new Sequencer()
NewSequencer ==
    /\ bpm = 120
    /\ swing = 50
    /\ tracks = <<>>
    /\ maxSteps = 0
    /\ currentStep = 0
    /\ isPlaying = FALSE
    /\ intervalId = 0
    /\ intervals = 0
    /\ stepDuration = 0
    /\ activeNotes = <<>>
    /\ pending = <<>>
    /\ nextId = 1
    /\ voices = <<>>
    /\ cmds = <<>>
    /\ lastOp = Op("new", FALSE)
    /\ single = NewSingle

\* a new sequencer whose callbacks are not wired to an engine
Init == NewSequencer /\ engine = NewAudioEngine(StorePlain)

\* the assignments that end parse (lines 82-85)
CommitPattern(p) ==
    /\ bpm' = p.bpm
    /\ swing' = p.swing
    /\ tracks' = p.tracks
    /\ maxSteps' = p.maxSteps

\* a parse that starts from the bpm and the swing of the sequencer
ParseFromCurrent(text) ==
    /\ CommitPattern(Pattern(ParseLines([bpm |-> bpm, swing |-> swing, tracks |-> <<>>,
                                         currentTrack |-> 0], text)))
    /\ cmds' = <<>>
    /\ lastOp' = Op("parse", FALSE)
    /\ UNCHANGED <<currentStep, isPlaying, intervalId, intervals, stepDuration, activeNotes,
                   pending, nextId, voices>>

\* parse(text)
Parse(text) ==
    /\ CommitPattern(ParseText(text))
    /\ cmds' = <<>>
    /\ lastOp' = Op("parse", FALSE)
    /\ UNCHANGED <<currentStep, isPlaying, intervalId, intervals, stepDuration, activeNotes,
                   pending, nextId, voices>>

\* the scheduler's objects after an operation that left them as st, within
\* the bounds of the model
Commit(st) ==
    /\ st.nextId <= MaxHandles + 1
    /\ Len(st.pending) <= MaxPending
    /\ activeNotes' = st.activeNotes
    /\ pending' = st.pending
    /\ nextId' = st.nextId
    /\ voices' = st.voices
    /\ cmds' = st.cmds

\* a play() without this.activeNotes.clear()
PlayKeepsTables ==
    IF isPlaying \/ Len(tracks) = 0
    THEN /\ cmds' = <<>>
         /\ lastOp' = Op("play", TRUE)
         /\ UNCHANGED <<bpm, swing, tracks, maxSteps, currentStep, isPlaying,
                        intervalId, intervals, stepDuration, activeNotes, pending, nextId,
                        voices>>
    ELSE /\ Commit(StartInterval(Work(activeNotes, pending, nextId, voices),
                                 tracks, 0, swing, bpm))
         /\ isPlaying' = TRUE
         /\ currentStep' = 0
         /\ intervalId' = 1
         /\ intervals' = ClearInterval(intervalId, intervals) + 1
         /\ stepDuration' = StepDuration(bpm)
         /\ lastOp' = Op("play", FALSE)
         /\ UNCHANGED <<bpm, swing, tracks, maxSteps>>

\* a play() that tests the tracks only and starts again while playing
PlayRestarts ==
    IF Len(tracks) = 0
    THEN /\ cmds' = <<>>
         /\ lastOp' = Op("play", TRUE)
         /\ UNCHANGED <<bpm, swing, tracks, maxSteps, currentStep, isPlaying,
                        intervalId, intervals, stepDuration, activeNotes, pending,
                        nextId, voices>>
    ELSE /\ Commit(StartInterval(Work(<<>>, pending, nextId, voices),
                                 tracks, 0, swing, bpm))
         /\ isPlaying' = TRUE
         /\ currentStep' = 0
         /\ intervalId' = 1
         /\ intervals' = ClearInterval(intervalId, intervals) + 1
         /\ stepDuration' = StepDuration(bpm)
         /\ lastOp' = Op("play", isPlaying)
         /\ UNCHANGED <<bpm, swing, tracks, maxSteps>>

\* play(triggerNote, stopNote)
Play ==
    IF isPlaying \/ Len(tracks) = 0
    THEN /\ cmds' = <<>>
         /\ lastOp' = Op("play", TRUE)
         /\ UNCHANGED <<bpm, swing, tracks, maxSteps, currentStep, isPlaying,
                        intervalId, intervals, stepDuration, activeNotes, pending, nextId,
                        voices>>
    ELSE /\ Commit(StartInterval(Work(<<>>, pending, nextId, voices),
                                 tracks, 0, swing, bpm))
         /\ isPlaying' = TRUE
         /\ currentStep' = 0
         /\ intervalId' = 1
         /\ intervals' = ClearInterval(intervalId, intervals) + 1
         /\ stepDuration' = StepDuration(bpm)
         /\ lastOp' = Op("play", FALSE)
         /\ UNCHANGED <<bpm, swing, tracks, maxSteps>>

\* the cursor after a tick (line 272)
Advance(cur, len) == JsMod(JsAdd(cur, 1), len)

\* the callback of setInterval (lines 271-274); it runs when no one-shot
\* timer is due before it
Tick ==
    /\ intervalId = 1
    /\ \A i \in 1..Len(pending) : pending[i].slack > 0
    /\ currentStep' = Advance(currentStep, maxSteps)
    /\ Commit(PlayCurrentStep(Work(activeNotes, Ticked(pending), nextId, voices),
                              tracks, Advance(currentStep, maxSteps), swing,
                              stepDuration))
    /\ lastOp' = Op("tick", FALSE)
    /\ UNCHANGED <<bpm, swing, tracks, maxSteps, isPlaying, intervalId, intervals, stepDuration>>

\* the callback of setTimeout(executeStep, swingDelay) (line 397)
Timeout(i) ==
    /\ Commit(ExecuteStep(Work(activeNotes, RemoveAt(pending, i), nextId, voices),
                          tracks, currentStep))
    /\ lastOp' = Op("timeout", FALSE)
    /\ UNCHANGED <<bpm, swing, tracks, maxSteps, currentStep, isPlaying,
                   intervalId, intervals, stepDuration>>

\* setBpm(newBpm)
SetBpm(newBpm) ==
    IF isPlaying
    THEN /\ Commit(StartInterval(Work(activeNotes, pending, nextId, voices),
                                 tracks, currentStep, swing, newBpm))
         /\ bpm' = newBpm
         /\ intervalId' = 1
         /\ intervals' = ClearInterval(intervalId, intervals) + 1
         /\ stepDuration' = StepDuration(newBpm)
         /\ lastOp' = Op("setBpm", FALSE)
         /\ UNCHANGED <<swing, tracks, maxSteps, currentStep, isPlaying>>
    ELSE /\ bpm' = newBpm
         /\ cmds' = <<>>
         /\ lastOp' = Op("setBpm", TRUE)
         /\ UNCHANGED <<swing, tracks, maxSteps, currentStep, isPlaying, intervalId, intervals,
                        stepDuration, activeNotes, pending, nextId, voices>>

\* stop()
Stop ==
    /\ Commit(Notify(StopAll(Work(<<>>, pending, nextId, voices),
                             AllEntries(activeNotes)), Stopped))
    /\ intervalId' = 0
    /\ intervals' = ClearInterval(intervalId, intervals)
    /\ stepDuration' = 0
    /\ isPlaying' = FALSE
    /\ currentStep' = 0
    /\ lastOp' = Op("stop", FALSE)
    /\ UNCHANGED <<bpm, swing, tracks, maxSteps>>

\* the operations of a sequencer whose callbacks are not wired to an engine
NextOver(texts) ==
    \/ \E text \in texts : Parse(text) /\ UNCHANGED <<engine, single>>
    \/ Play /\ UNCHANGED <<engine, single>>
    \/ Tick /\ UNCHANGED <<engine, single>>
    \/ \E i \in 1..Len(pending) : Timeout(i) /\ UNCHANGED <<engine, single>>
    \/ \E b \in BpmValues : SetBpm(b) /\ UNCHANGED <<engine, single>>
    \/ Stop /\ UNCHANGED <<engine, single>>

Next == NextOver(Texts)

Spec == Init /\ [][Next]_vars

\* the same scheduler over texts that include a track without steps
TextsNoSteps == {TextNoSteps, TextSwing}

NextNoSteps == NextOver(TextsNoSteps)

SpecNoSteps == Init /\ [][NextNoSteps]_vars

\* ------------------------------------------------------------------------
\* The scheduler over a pattern of untied notes
\* ------------------------------------------------------------------------
\* oscillator lead / sequence c4 - e4 -
TextPlain ==
    <<Osc("lead"),
      Seqn(<< <<"c", "4">>, <<"-">>, <<"e", "4">>, <<"-">> >>)>>

TextsPlain == {TextPlain, TextSwing}

NextPlain == NextOver(TextsPlain)

SpecPlain == Init /\ [][NextPlain]_vars

\* ------------------------------------------------------------------------
\* The scheduler over tracks of unequal length
\* ------------------------------------------------------------------------
\* oscillator lead / sequence c4~ c4 - / oscillator bass / sequence g2~ /
\* oscillator pad   (three, one and no steps)
TextUnequal ==
    <<Osc("lead"), Seqn(<< <<"c", "4", "~">>, <<"c", "4">>, <<"-">> >>),
      Osc("bass"), Seqn(<< <<"g", "2", "~">> >>),
      Osc("pad")>>

TextsUnequal == {TextUnequal, TextSwing}

NextUnequal == NextOver(TextsUnequal)

SpecUnequal == Init /\ [][NextUnequal]_vars

\* ------------------------------------------------------------------------
\* The scheduler over a loop that ends on a tie
\* ------------------------------------------------------------------------
\* oscillator lead / sequence c4~ c4~
TextLoop ==
    <<Osc("lead"), Seqn(<< <<"c", "4", "~">>, <<"c", "4", "~">> >>)>>

TextsLoop == {TextLoop, TextSwing}

NextLoop == NextOver(TextsLoop)

SpecLoop == Init /\ [][NextLoop]_vars

\* ------------------------------------------------------------------------
\* The scheduler over slides
\* ------------------------------------------------------------------------
\* oscillator lead / sequence c4>e4 c4
TextSlide ==
    <<Osc("lead"), Seqn(<< <<"c", "4", ">", "e", "4">>, <<"c", "4">> >>)>>

\* oscillator lead / sequence c4>e4 g4
TextSlideOn ==
    <<Osc("lead"), Seqn(<< <<"c", "4", ">", "e", "4">>, <<"g", "4">> >>)>>

TextsSlide == {TextSlide, TextSlideOn, TextSwing}

NextSlide == NextOver(TextsSlide)

SpecSlide == Init /\ [][NextSlide]_vars

\* ------------------------------------------------------------------------
\* The scheduler over playback started again
\* ------------------------------------------------------------------------
\* bpm 60 / swing 100 / oscillator lead / sequence c4~ e4
TextSwingOne ==
    <<Line("bpm", "", << <<"6", "0">> >>),
      Line("swing", "", << <<"1", "0", "0">> >>),
      Osc("lead"), Seqn(<< <<"c", "4", "~">>, <<"e", "4">> >>)>>

TextsReplay == {TextSwingOne, TextSwing}

NextReplay == NextOver(TextsReplay)

SpecReplay == Init /\ [][NextReplay]_vars

\* ------------------------------------------------------------------------
\* The parser over slide tokens
\* ------------------------------------------------------------------------
NoteWords == {<<"c", "4">>, <<"f", "#", "3">>, <<"B", "b", "2">>}

TargetWords == {<<"e", "4">>, <<"g", "#", "5">>, <<"a", "0">>}

LeftModifiers ==
    {<<>>, <<"@", "8", "0">>, <<":", "2", "5">>, <<"@", "8", "0", ":", "5", "0">>,
     <<"~">>, <<":", "2", "5", "~">>}

RightModifiers == {<<>>, <<"~">>, <<"@", "9", "0">>, <<":", "1", "0", "~">>}

\* the left and the right sides of the slide tokens
SlideLefts == {n \o m : n \in NoteWords, m \in LeftModifiers}

SlideRights == {n \o m : n \in TargetWords, m \in RightModifiers}

\* oscillator lead / sequence l>r l r
TextSlideOf(l, r) == <<Osc("lead"), Seqn(<<l \o <<">">> \o r, l, r>>)>>

NextSlideTokens == \E l \in SlideLefts : \E r \in SlideRights : Parse(TextSlideOf(l, r)) /\ UNCHANGED <<engine, single>>

SpecSlideTokens == Init /\ [][NextSlideTokens]_vars

\* ------------------------------------------------------------------------
\* The parser over malformed tokens
\* ------------------------------------------------------------------------
\* tokens that are no note, no slide and no chord: h4 c c44 c4@ c4:50@80
\* c4~~ 4c c4@8x -- ~ / c4> >e4 c4>x x>e4 c4>e4>g4 c4>>e4 [c4,e4]>g4 /
\* [] [x] [,] [x,,y] [c4 c4] [[c4]] [c4>]
BadTokens ==
    {<<"h", "4">>, <<"c">>, <<"c", "4", "4">>, <<"c", "4", "@">>,
     <<"c", "4", ":", "5", "0", "@", "8", "0">>, <<"c", "4", "~", "~">>,
     <<"4", "c">>, <<"c", "4", "@", "8", "x">>, <<"-", "-">>, <<"~">>,
     <<"c", "4", ">">>, <<">", "e", "4">>, <<"c", "4", ">", "x">>,
     <<"x", ">", "e", "4">>, <<"c", "4", ">", "e", "4", ">", "g", "4">>,
     <<"c", "4", ">", ">", "e", "4">>,
     <<"[", "c", "4", ",", "e", "4", "]", ">", "g", "4">>,
     <<"[", "]">>, <<"[", "x", "]">>, <<"[", ",", "]">>,
     <<"[", "x", ",", ",", "y", "]">>, <<"[", "c", "4">>, <<"c", "4", "]">>,
     <<"[", "[", "c", "4", "]", "]">>, <<"[", "c", "4", ">", "]">>}

\* tokens around them: c4 [c4,,e4~] c4>e4 - f#3@80 Bb2:25~ [g4] e4~
\* a0@90:10 [c4,x] d5
GoodTokens ==
    {<<"c", "4">>, <<"[", "c", "4", ",", ",", "e", "4", "~", "]">>,
     <<"c", "4", ">", "e", "4">>, <<"-">>, <<"f", "#", "3", "@", "8", "0">>,
     <<"B", "b", "2", ":", "2", "5", "~">>, <<"[", "g", "4", "]">>,
     <<"e", "4", "~">>, <<"a", "0", "@", "9", "0", ":", "1", "0">>,
     <<"[", "c", "4", ",", "x", "]">>, <<"d", "5">>}

\* oscillator a / sequence g1 tok g2 / oscillator b / sequence g1 - g2
TextBad(g1, tok, g2) ==
    <<Osc("a"), Seqn(<<g1, tok, g2>>), Osc("b"), Seqn(<<g1, <<"-">>, g2>>)>>

\* one parse by a new sequencer (parse does not read what an earlier parse
\* committed)
NextBadTokens ==
    /\ lastOp.kind = "new"
    /\ \E g1 \in GoodTokens : \E tok \in BadTokens : \E g2 \in GoodTokens :
          Parse(TextBad(g1, tok, g2)) /\ UNCHANGED <<engine, single>>

SpecBadTokens == Init /\ [][NextBadTokens]_vars

\* ------------------------------------------------------------------------
\* The playing scheduler over every swing
\* ------------------------------------------------------------------------
DigitChar(d) ==
    CASE d = 0 -> "0" [] d = 1 -> "1" [] d = 2 -> "2" [] d = 3 -> "3"
      [] d = 4 -> "4" [] d = 5 -> "5" [] d = 6 -> "6" [] d = 7 -> "7"
      [] d = 8 -> "8" [] OTHER -> "9"

\* the decimal digits of n as a word
RECURSIVE NumWord(_)
NumWord(n) ==
    IF n < 10 THEN <<DigitChar(n)>> ELSE NumWord(n \div 10) \o <<DigitChar(n % 10)>>

\* bpm b / swing s / oscillator lead / sequence - - - -
TextRests(b, s) ==
    <<Line("bpm", "", <<NumWord(b)>>), Line("swing", "", <<NumWord(s)>>),
      Osc("lead"), Seqn(<< <<"-">>, <<"-">>, <<"-">>, <<"-">> >>)>>

SwingValues == 0..100

SwingBpms == {60, 120, 200}

\* the scheduler while it plays such a text, at any step of it, right after
\* the text was parsed again: parse, play, ticks up to the step, parse
InitSwing ==
    \E b \in SwingBpms : \E s \in SwingValues :
        /\ bpm = ParseText(TextRests(b, s)).bpm
        /\ swing = ParseText(TextRests(b, s)).swing
        /\ tracks = ParseText(TextRests(b, s)).tracks
        /\ maxSteps = ParseText(TextRests(b, s)).maxSteps
        /\ currentStep \in 0..(ParseText(TextRests(b, s)).maxSteps - 1)
        /\ isPlaying = TRUE
        /\ intervalId = 1
        /\ intervals = 1
        /\ stepDuration = StepDuration(ParseText(TextRests(b, s)).bpm)
        /\ activeNotes = <<[key |-> "lead", notes |-> <<>>]>>
        /\ pending = <<>>
        /\ nextId = 1
        /\ voices = <<>>
        /\ cmds = <<>>
        /\ lastOp = Op("parse", FALSE)
        /\ engine = NewAudioEngine(StorePlain)
        /\ single = NewSingle

NextSwing ==
    \/ Tick /\ UNCHANGED <<engine, single>>
    \/ \E i \in 1..Len(pending) : Timeout(i) /\ UNCHANGED <<engine, single>>

SpecSwing == InitSwing /\ [][NextSwing]_vars

\* ------------------------------------------------------------------------
\* Vocabulary of the properties
\* ------------------------------------------------------------------------
\* the step contains a voice of name n
Contains(step, n) ==
    \E i \in 1..Len(GetStepNotes(step)) : GetStepNotes(step)[i].noteName = n

\* the step contains a voice of name n with tie
ContainsTied(step, n) ==
    \E i \in 1..Len(GetStepNotes(step)) :
        GetStepNotes(step)[i].noteName = n /\ GetStepNotes(step)[i].tie

NamesOf(step) == {GetStepNotes(step)[i].noteName : i \in 1..Len(GetStepNotes(step))}

\* the commands cs hold a start or a stop for name n on track t
Touches(cs, t, n) ==
    \E k \in 1..Len(cs) :
        cs[k].op \in {"start", "stop"} /\ cs[k].track = t /\ cs[k].noteName = n

Issues(cs, op, t, n) ==
    \E k \in 1..Len(cs) : cs[k].op = op /\ cs[k].track = t /\ cs[k].noteName = n

\* the last operation triggered the notes of the step at the cursor: a tick,
\* play() or setBpm() did when the step was not deferred, a one-shot timer
\* always does
Triggered(op, cur, sw, dur) ==
    \/ op.kind = "timeout"
    \/ op.kind \in {"play", "tick", "setBpm"} /\ ~op.noop /\ SwingDelay(cur, sw, dur) = 0

\* the state: the notes of the step at the cursor have just been triggered
StepRan == isPlaying /\ IsNum(currentStep) /\ Triggered(lastOp, currentStep, swing, stepDuration)

\* the handles held by the tables an
EntriesIn(an) == UNION {{an[i].notes[j] : j \in 1..Len(an[i].notes)} : i \in 1..Len(an)}

HandlesIn(an) == {e.noteId : e \in EntriesIn(an)}

StopsOf(cs, h) == {k \in 1..Len(cs) : cs[k].op = "stop" /\ cs[k].noteId = h}

\* ------------------------------------------------------------------------
\* C1.  On one track, when step i holds n with tie and step i+1 of the same
\* pass holds n, the tick for step i+1 issues neither a stop nor a start
\* for n: stated for a tick that triggers step i+1 right after step i was
\* triggered.
\* ------------------------------------------------------------------------
C1_TieContinues ==
    [][(/\ StepRan
        /\ lastOp'.kind = "tick"
        /\ currentStep' = currentStep + 1
        /\ Triggered(lastOp', currentStep', swing', stepDuration'))
       => \A t \in 1..Len(tracks) : \A n \in NamesOf(StepAt(tracks[t], currentStep)) :
            (/\ ContainsTied(StepAt(tracks[t], currentStep), n)
             /\ Contains(StepAt(tracks[t], currentStep'), n))
            => ~Touches(cmds', t, n)]_vars

\* ------------------------------------------------------------------------
\* C2.  For consecutive chord steps on a track, the tick for the second
\* carries a voice n of the first over (its table entry is kept with its
\* handle, no start and no stop is issued for n) iff n is tied in the first
\* chord and present in the second; a voice of the first that is absent
\* from the second is not carried over, and a voice of the second that is
\* not carried over is started.
\* ------------------------------------------------------------------------
CarriedOver(t, n) ==
    /\ ~Touches(cmds', t, n)
    /\ \E i \in 1..Len(activeNotes) : \E j \in 1..Len(activeNotes[i].notes) :
          /\ activeNotes[i].key = TrackKey(tracks[t])
          /\ activeNotes[i].notes[j].noteName = n
          /\ \E k \in 1..Len(TableOf(activeNotes', TrackKey(tracks[t]))) :
                TableOf(activeNotes', TrackKey(tracks[t]))[k] = activeNotes[i].notes[j]

C2_ChordVoices ==
    [][(/\ StepRan
        /\ lastOp'.kind = "tick"
        /\ currentStep' = currentStep + 1
        /\ Triggered(lastOp', currentStep', swing', stepDuration'))
       => \A t \in 1..Len(tracks) :
            (/\ StepAt(tracks[t], currentStep).type = "chord"
             /\ StepAt(tracks[t], currentStep').type = "chord")
            => /\ \A n \in NamesOf(StepAt(tracks[t], currentStep)) :
                    CarriedOver(t, n)
                        <=> (/\ ContainsTied(StepAt(tracks[t], currentStep), n)
                             /\ Contains(StepAt(tracks[t], currentStep'), n))
               /\ \A n \in NamesOf(StepAt(tracks[t], currentStep')) :
                    ~CarriedOver(t, n) => Issues(cmds', "start", t, n)]_vars

\* ------------------------------------------------------------------------
\* C3.  At every tick every entry of every table is resolved: it stays, with
\* its handle and without a stop, iff the previous step of its track holds
\* its name with tie and the current step holds its name; otherwise its
\* handle is stopped and the entry removed in that tick.
\* ------------------------------------------------------------------------
C3_EveryEntryResolved ==
    [][(/\ lastOp'.kind \in {"tick", "timeout"}
        /\ IsNum(currentStep')
        /\ Triggered(lastOp', currentStep', swing', stepDuration'))
       => \A i \in 1..Len(activeNotes) : \A j \in 1..Len(activeNotes[i].notes) :
            IF \E t \in 1..Len(tracks) :
                 /\ TrackKey(tracks[t]) = activeNotes[i].key
                 /\ ContainsTied(PrevStepAt(tracks[t], currentStep'),
                                 activeNotes[i].notes[j].noteName)
                 /\ Contains(StepAt(tracks[t], currentStep'),
                             activeNotes[i].notes[j].noteName)
            THEN /\ activeNotes[i].notes[j].noteId \in HandlesIn(activeNotes')
                 /\ StopsOf(cmds', activeNotes[i].notes[j].noteId) = {}
            ELSE /\ activeNotes[i].notes[j].noteId \notin HandlesIn(activeNotes')
                 /\ Cardinality(StopsOf(cmds', activeNotes[i].notes[j].noteId)) = 1]_vars

\* ------------------------------------------------------------------------
\* C4.  stop() clears the recurring timer, passes every handle that is in a
\* table when it is called to the stop callback exactly once, empties the
\* tables, resets the cursor and then notifies the stopped value -1.
\* ------------------------------------------------------------------------
C4_StopStopsAll ==
    [][lastOp'.kind = "stop"
       => /\ intervalId' = 0
          /\ ~isPlaying'
          /\ currentStep' = 0
          /\ activeNotes' = <<>>
          /\ Len(cmds') = Cardinality(HandlesIn(activeNotes)) + 1
          /\ cmds'[Len(cmds')].op = "notify"
          /\ cmds'[Len(cmds')].step = Stopped
          /\ \A k \in 1..(Len(cmds') - 1) :
                cmds'[k].op = "stop" /\ cmds'[k].noteId \in HandlesIn(activeNotes)
          /\ \A h \in HandlesIn(activeNotes) :
                /\ Cardinality(StopsOf(cmds', h)) = 1
                /\ voices'[h].stops = voices[h].stops + 1]_vars

\* a stop() that found tied voices of two tracks
C4_Witness ==
    /\ lastOp.kind = "stop"
    /\ Len(cmds) >= 3
    /\ cmds[1].op = "stop"
    /\ cmds[2].op = "stop"
    /\ cmds[1].noteId # cmds[2].noteId

\* ------------------------------------------------------------------------
\* C5.  Once stop() has returned and until the next play(), no start is
\* issued and no table holds an entry.
\* ------------------------------------------------------------------------
C5_NoStartAfterStop ==
    ~isPlaying =>
        /\ \A k \in 1..Len(cmds) : cmds[k].op # "start"
        /\ EntriesIn(activeNotes) = {}

\* ------------------------------------------------------------------------
\* C6.  setBpm() while playing restarts the timer at the new interval and
\* leaves the cursor and every table entry as they are: it issues no stop
\* and no start.
\* ------------------------------------------------------------------------
C6_SetBpmKeepsVoices ==
    [][(lastOp'.kind = "setBpm" /\ isPlaying)
       => /\ intervalId' = 1
          /\ stepDuration' = StepDuration(bpm')
          /\ currentStep' = currentStep
          /\ EntriesIn(activeNotes') = EntriesIn(activeNotes)
          /\ \A k \in 1..Len(cmds') : cmds'[k].op \notin {"start", "stop"}]_vars

\* ------------------------------------------------------------------------
\* C7.  No handle is stopped twice, and once stop() has returned and every
\* timer has fired, every voice that was started with tie has been stopped
\* exactly once.
\* ------------------------------------------------------------------------
C7_TiedVoicesStopped ==
    /\ \A h \in 1..Len(voices) : voices[h].stops <= 1
    /\ (~isPlaying /\ pending = <<>>)
         => \A h \in 1..Len(voices) : voices[h].tie => voices[h].stops = 1

\* ------------------------------------------------------------------------
\* C8.  While the scheduler is playing, the cursor is an integer with
\* 0 <= currentStep < maxSteps.
\* ------------------------------------------------------------------------
C8_CursorInRange ==
    isPlaying => (IsNum(currentStep) /\ 0 <= currentStep /\ currentStep < maxSteps)

\* ------------------------------------------------------------------------
\* C9.  The step-change callback is invoked once by play() (step 0), once
\* by each tick (the cursor after the advance), once by stop() (the value
\* -1), and by no other operation: no step is notified twice.
\* ------------------------------------------------------------------------
Notified(cs) == SelectSeq(cs, LAMBDA c : c.op = "notify")

C9_OneNotifyPerTick ==
    /\ (lastOp.kind \in {"play", "tick"} /\ ~lastOp.noop)
         => (Len(Notified(cmds)) = 1 /\ Notified(cmds)[1].step = currentStep)
    /\ lastOp.kind = "stop"
         => (Len(Notified(cmds)) = 1 /\ cmds[Len(cmds)].step = Stopped
             /\ cmds[Len(cmds)].op = "notify")
    /\ (lastOp.kind \notin {"play", "tick", "stop"} \/ lastOp.noop)
         => Len(Notified(cmds)) = 0

\* ------------------------------------------------------------------------
\* C10 as claimed.  In the commands of one tick no stop follows a start.
\* ------------------------------------------------------------------------
C10_StopsBeforeStarts ==
    lastOp.kind \in {"tick", "timeout"}
        => \A i \in 1..Len(cmds) : \A j \in (i + 1)..Len(cmds) :
              ~(cmds[i].op = "start" /\ cmds[j].op = "stop")

\* ------------------------------------------------------------------------
\* C10 as amended.  In the commands of one operation the tracks come in
\* declaration order, and within one track no stop follows a start.
\* ------------------------------------------------------------------------
C10_StopsBeforeStartsPerTrack ==
    \A i \in 1..Len(cmds) : \A j \in (i + 1)..Len(cmds) :
        (cmds[i].op \in {"start", "stop"} /\ cmds[j].op \in {"start", "stop"})
            => /\ cmds[i].track <= cmds[j].track
               /\ (cmds[i].track = cmds[j].track /\ cmds[i].op = "start")
                     => cmds[j].op = "start"

\* a tick in which a track stops a voice and starts another, and a later
\* track stops a voice
C10_Witness ==
    /\ lastOp.kind \in {"tick", "timeout"}
    /\ \E i \in 1..Len(cmds) : \E j \in (i + 1)..Len(cmds) : \E k \in (j + 1)..Len(cmds) :
          /\ cmds[i].op = "stop" /\ cmds[j].op = "start" /\ cmds[k].op = "stop"
          /\ cmds[i].track = cmds[j].track
          /\ cmds[j].track < cmds[k].track

C12_NotifyNotDeferred ==
    [][(lastOp'.kind \in {"tick", "play", "setBpm"} /\ ~lastOp'.noop)
       => /\ Len(cmds') >= 1
          /\ cmds'[Len(cmds')].op = "notify"
          /\ cmds'[Len(cmds')].step = currentStep'
          /\ \A k \in 1..(Len(cmds') - 1) : cmds'[k].op \in {"start", "stop"}
          /\ Len(pending') = Len(pending) + 1
                => /\ Len(cmds') = 1
                   /\ voices' = voices
                   /\ nextId' = nextId
                   /\ lastOp'.kind = "tick" => activeNotes' = activeNotes]_vars

\* a tick has deferred its step: the step is notified, the voices of the
\* previous step are still in the tables, the timer is pending
C12_Witness ==
    /\ lastOp.kind = "tick"
    /\ cmds = <<Cmd("notify", 0, <<>>, 0, FALSE, currentStep)>>
    /\ pending # <<>>
    /\ activeNotes # <<>>
    /\ \A i \in 1..Len(activeNotes) : activeNotes[i].notes # <<>>

\* ------------------------------------------------------------------------
\* C13.  At most one swing one-shot timer is pending at any moment; a timer
\* that runs processes the step it was set for (the cursor has not moved
\* since); a tick finds no timer of an earlier step pending; and setBpm()
\* during playback neither triggers the notes of the step again nor sets
\* another timer for it.
\* ------------------------------------------------------------------------
C13_OneTriggerPerTick ==
    [][/\ Len(pending') <= 1
       /\ lastOp'.kind = "timeout"
            => \E i \in 1..Len(pending) :
                  pending' = RemoveAt(pending, i) /\ pending[i].step = currentStep
       /\ lastOp'.kind = "tick" => pending = <<>>
       /\ (lastOp'.kind = "setBpm" /\ isPlaying)
            => /\ Len(pending') = Len(pending)
               /\ \A k \in 1..Len(cmds') : cmds'[k].op \notin {"start", "stop"}]_vars

\* ------------------------------------------------------------------------
\* C14.  Only voices started with tie are stored and stopped: a handle of a
\* voice started without tie is in no table and was never passed to the
\* stop callback, whatever ticks and stop() calls followed, and every stop
\* a run issues names a handle started with tie.  While c4 - e4 - plays, a
\* tick starts c4 at step 0 and e4 at step 2, starts nothing at steps 1 and
\* 3, and stops neither of the two.
\* ------------------------------------------------------------------------
C14_UntiedNeverStopped ==
    /\ \A h \in 1..Len(voices) :
          ~voices[h].tie => (voices[h].stops = 0 /\ h \notin HandlesIn(activeNotes))
    /\ \A k \in 1..Len(cmds) :
          cmds[k].op = "stop" => voices[cmds[k].noteId].tie
    /\ (tracks = ParseText(TextPlain).tracks /\ lastOp.kind \in {"play", "tick"}
        /\ ~lastOp.noop)
          => SelectSeq(cmds, LAMBDA c : c.op = "start") =
                IF currentStep = 0
                THEN <<Cmd("start", 1, <<"c", "4">>, nextId - 1, FALSE, 0)>>
                ELSE IF currentStep = 2
                THEN <<Cmd("start", 1, <<"e", "4">>, nextId - 1, FALSE, 0)>>
                ELSE <<>>

\* c4 - e4 - has played up to its last step and was stopped: c4 and e4 were
\* started and neither was passed to the stop callback
C14_Witness ==
    /\ tracks = ParseText(TextPlain).tracks
    /\ lastOp.kind = "stop"
    /\ Len(voices) = 2
    /\ voices[1] = [noteName |-> <<"c", "4">>, tie |-> FALSE, stops |-> 0]
    /\ voices[2] = [noteName |-> <<"e", "4">>, tie |-> FALSE, stops |-> 0]

\* ------------------------------------------------------------------------
\* C15.  When the notes of a step are triggered with the cursor at or past
\* the end of a track, the track is a rest: no start is issued for it, and
\* every handle that was in the table of the track is stopped in that run
\* and gone from the tables after it.  Each tick moves the cursor to
\* (currentStep + 1) mod maxSteps, inside 0..maxSteps - 1.
\* ------------------------------------------------------------------------
C15_ShortTrackRests ==
    [][/\ (/\ lastOp'.kind \in {"tick", "timeout"}
           /\ IsNum(currentStep')
           /\ Triggered(lastOp', currentStep', swing', stepDuration'))
          => \A t \in 1..Len(tracks') :
                Len(tracks'[t].steps) <= currentStep'
                   => /\ \A k \in 1..Len(cmds') :
                            ~(cmds'[k].op = "start" /\ cmds'[k].track = t)
                      /\ \A h \in {TableOf(activeNotes, TrackKey(tracks'[t]))[j].noteId :
                                     j \in 1..Len(TableOf(activeNotes, TrackKey(tracks'[t])))} :
                            /\ Cardinality(StopsOf(cmds', h)) = 1
                            /\ h \notin HandlesIn(activeNotes')
       /\ (lastOp'.kind = "tick" /\ maxSteps > 0 /\ IsNum(currentStep))
          => /\ currentStep' = (currentStep + 1) % maxSteps
             /\ currentStep' \in 0..(maxSteps - 1)]_vars

\* the tick for step 1 of the three tracks: bass (one step) rests and its
\* g2 is stopped, while lead carries its c4 over
C15_Witness ==
    /\ tracks = ParseText(TextUnequal).tracks
    /\ lastOp.kind = "tick"
    /\ currentStep = 1
    /\ Issues(cmds, "stop", 2, <<"g", "2">>)
    /\ ~Touches(cmds, 1, <<"c", "4">>)
    /\ HasNote(TableOf(activeNotes, "lead"), <<"c", "4">>)

\* ------------------------------------------------------------------------
\* C16.  When the cursor wraps from the last step to step 0, a voice whose
\* note at the last step has tie and whose name is in step 0 continues: the
\* tick for step 0 issues neither a stop nor a start for it.
\* ------------------------------------------------------------------------
C16_TieAcrossWrap ==
    [][(/\ StepRan
        /\ currentStep = maxSteps - 1
        /\ lastOp'.kind = "tick"
        /\ currentStep' = 0
        /\ Triggered(lastOp', currentStep', swing', stepDuration'))
       => \A t \in 1..Len(tracks) : \A n \in NamesOf(StepAt(tracks[t], currentStep)) :
            (/\ ContainsTied(StepAt(tracks[t], currentStep), n)
             /\ Contains(StepAt(tracks[t], 0), n))
            => ~Touches(cmds', t, n)]_vars

\* ------------------------------------------------------------------------
\* C17.  A voice started by a slide token is held over its step (its handle
\* is in the table of its track once the step has been triggered) and is
\* stopped when the notes of the following step are triggered, whatever
\* that step holds: its handle is passed to the stop callback in that run
\* and is in no table after it.
\* ------------------------------------------------------------------------
C17_SlideEndsAtNextStep ==
    [][(/\ StepRan
        /\ lastOp'.kind = "tick"
        /\ currentStep' = currentStep + 1
        /\ Triggered(lastOp', currentStep', swing', stepDuration'))
       => \A t \in 1..Len(tracks) :
            \A i \in 1..Len(GetStepNotes(StepAt(tracks[t], currentStep))) :
               GetStepNotes(StepAt(tracks[t], currentStep))[i].slideTo # Null
               => /\ HasNote(TableOf(activeNotes, TrackKey(tracks[t])),
                             GetStepNotes(StepAt(tracks[t], currentStep))[i].noteName)
                  /\ \A j \in 1..Len(TableOf(activeNotes, TrackKey(tracks[t]))) :
                        TableOf(activeNotes, TrackKey(tracks[t]))[j].noteName
                            = GetStepNotes(StepAt(tracks[t], currentStep))[i].noteName
                        => /\ Cardinality(StopsOf(cmds',
                                 TableOf(activeNotes, TrackKey(tracks[t]))[j].noteId)) = 1
                           /\ TableOf(activeNotes, TrackKey(tracks[t]))[j].noteId
                                 \notin HandlesIn(activeNotes')]_vars

\* ------------------------------------------------------------------------
\* C18.  play() from idle on a pattern with a track starts playback with the
\* cursor at 0 and with tables emptied before step 0 is processed: its run
\* stops nothing (no entry of an earlier playback is found), it issues a
\* start for every note of step 0 of every track, and every handle in a
\* table after it was handed out by this run.
\* ------------------------------------------------------------------------
C18_PlayStartsClean ==
    [][(lastOp'.kind = "play" /\ ~lastOp'.noop)
       => /\ ~isPlaying
          /\ Len(tracks) >= 1
          /\ isPlaying'
          /\ currentStep' = 0
          /\ Len(pending') = Len(pending)
          /\ \A k \in 1..Len(cmds') :
                cmds'[k].op = "stop" => cmds'[k].noteId >= nextId
          /\ \A h \in HandlesIn(activeNotes') : h >= nextId
          /\ \A t \in 1..Len(tracks) : \A n \in NamesOf(StepAt(tracks[t], 0)) :
                Issues(cmds', "start", t, n)]_vars

\* playback was started again after an earlier one: step 0 started its
\* notes under new handles
C18_Witness ==
    /\ lastOp = Op("play", FALSE)
    /\ Len(SelectSeq(cmds, LAMBDA c : c.op = "start")) >= 1
    /\ Len(voices) > Len(SelectSeq(cmds, LAMBDA c : c.op = "start"))
    /\ \A h \in HandlesIn(activeNotes) :
          h > Len(voices) - Len(SelectSeq(cmds, LAMBDA c : c.op = "start"))

\* ------------------------------------------------------------------------
\* C19.  The step parsed from a slide token l>r is a note with a slide
\* target, tie = true and gate = 100, whatever modifiers l and r carry; its
\* note name, frequency and velocity are those of l parsed alone, and
\* slideTo holds the note name, frequency and velocity of r parsed alone.
\* (The parsed text is "l>r l r": steps 2 and 3 are the sides alone.)
\* ------------------------------------------------------------------------
C19_SlideTieGate ==
    lastOp.kind = "parse"
        => /\ Len(tracks) = 1
           /\ Len(tracks[1].steps) = 3
           /\ \A i \in 1..3 : tracks[1].steps[i].type = "note"
           /\ tracks[1].steps[1].slideTo # Null
           /\ tracks[1].steps[1].tie = TRUE
           /\ tracks[1].steps[1].gate = 100
           /\ tracks[1].steps[1].noteName = tracks[1].steps[2].noteName
           /\ tracks[1].steps[1].frequency = tracks[1].steps[2].frequency
           /\ tracks[1].steps[1].velocity = tracks[1].steps[2].velocity
           /\ tracks[1].steps[1].slideTo =
                 [noteName |-> tracks[1].steps[3].noteName,
                  frequency |-> tracks[1].steps[3].frequency,
                  velocity |-> tracks[1].steps[3].velocity]
           /\ tracks[1].steps[2].slideTo = Null
           /\ tracks[1].steps[3].slideTo = Null

\* c4:25>e4~ was parsed: the left side alone has gate 25 and no tie, the
\* slide has gate 100 and tie
C19_Witness ==
    /\ lastOp.kind = "parse"
    /\ tracks[1].steps[2].noteName = <<"c", "4">>
    /\ tracks[1].steps[2].gate = 25
    /\ tracks[1].steps[2].tie = FALSE
    /\ tracks[1].steps[3].tie = TRUE
    /\ tracks[1].steps[1].gate = 100
    /\ tracks[1].steps[1].tie = TRUE
    /\ tracks[1].steps[1].slideTo.noteName = <<"e", "4">>

\* ------------------------------------------------------------------------
\* C20.  Every token parses to a rest, a note or a chord of at least one
\* note; a malformed token parses to a rest, and the line that holds it and
\* the lines after it parse as if it were "-": a line of three tokens gives
\* three steps.  (The parsed text is "a: g1 tok g2 / b: g1 - g2" with tok
\* malformed: both tracks must hold the same steps.)
\* ------------------------------------------------------------------------
C20_MalformedIsRest ==
    lastOp.kind = "parse"
        => /\ Len(tracks) = 2
           /\ tracks[1].oscillator = "a"
           /\ tracks[2].oscillator = "b"
           /\ Len(tracks[1].steps) = 3
           /\ maxSteps = 3
           /\ tracks[1].steps[2] = Rest
           /\ tracks[1].steps = tracks[2].steps
           /\ \A t \in 1..2 : \A i \in 1..3 :
                 /\ tracks[t].steps[i].type \in {"rest", "note", "chord"}
                 /\ tracks[t].steps[i].type = "chord"
                       => /\ Len(tracks[t].steps[i].notes) >= 1
                          /\ \A k \in 1..Len(tracks[t].steps[i].notes) :
                                tracks[t].steps[i].notes[k] # Null

\* a malformed token between a chord with an empty piece and a slide: the
\* chord keeps its two notes, the slide its target
C20_Witness ==
    /\ lastOp.kind = "parse"
    /\ Len(tracks) = 2
    /\ tracks[1].steps[1].type = "chord"
    /\ Len(tracks[1].steps[1].notes) = 2
    /\ tracks[1].steps[2] = Rest
    /\ tracks[1].steps[3].type = "note"
    /\ tracks[1].steps[3].slideTo # Null

\* ------------------------------------------------------------------------
\* The parser over single-note tokens
\* ------------------------------------------------------------------------
\* note names: c4 f#3 bb0 a8 C4 c9 h4 c
NoteNames ==
    {<<"c", "4">>, <<"f", "#", "3">>, <<"b", "b", "0">>, <<"a", "8">>,
     <<"C", "4">>, <<"c", "9">>, <<"h", "4">>, <<"c">>}

\* what follows the name: nothing, @80 :50 @80:50 ~ @80~ :50~ @80:50~ @0:0
\* and :50@80 ~@80 ~:50 @ @80x x @80@90 ~~ 4
NoteSuffixes ==
    {<<>>, <<"@", "8", "0">>, <<":", "5", "0">>,
     <<"@", "8", "0", ":", "5", "0">>, <<"~">>, <<"@", "8", "0", "~">>,
     <<":", "5", "0", "~">>, <<"@", "8", "0", ":", "5", "0", "~">>,
     <<"@", "0", ":", "0">>,
     <<":", "5", "0", "@", "8", "0">>, <<"~", "@", "8", "0">>,
     <<"~", ":", "5", "0">>, <<"@">>, <<"@", "8", "0", "x">>, <<"x">>,
     <<"@", "8", "0", "@", "9", "0">>, <<"~", "~">>, <<"4">>}

NoteTokens == {n \o s : n \in NoteNames, s \in NoteSuffixes}

\* the tokens after the one under test: e4~ - d5
NextTokens == {<<"e", "4", "~">>, <<"-">>, <<"d", "5">>}

\* oscillator lead / sequence tok nxt
TextNote(tok, nxt) == <<Osc("lead"), Seqn(<<tok, nxt>>)>>

\* one parse by a new sequencer
NextNoteTokens ==
    /\ lastOp.kind = "new"
    /\ \E tok \in NoteTokens : \E nxt \in NextTokens : Parse(TextNote(tok, nxt)) /\ UNCHANGED <<engine, single>>

SpecNoteTokens == Init /\ [][NextNoteTokens]_vars

\* ------------------------------------------------------------------------
\* The note syntax as the documentation states it (PROMPT-GUIDE.md, Note
\* Syntax and Note Modifiers): a letter a-g, an optional # or b, an octave
\* 0 to 8, then @velocity, :gate, ~ in this order, each optional
\* ------------------------------------------------------------------------
OctaveDigits == {"0", "1", "2", "3", "4", "5", "6", "7", "8"}

\* s without an optional leading <mark><digits>
DropModifier(s, mark) ==
    IF Len(s) >= 2 /\ s[1] = mark /\ DigitsEnd(s, 2) > 2
    THEN SubSeq(s, DigitsEnd(s, 2), Len(s)) ELSE s

\* s is [@digits][:digits][~]
DocumentedSuffix(s) ==
    DropModifier(DropModifier(s, "@"), ":") \in {<<>>, <<"~">>}

DocumentedNote(tok) ==
    \/ /\ Len(tok) >= 2
       /\ ToLower(tok[1]) \in LowerLetters
       /\ tok[2] \in OctaveDigits
       /\ DocumentedSuffix(SubSeq(tok, 3, Len(tok)))
    \/ /\ Len(tok) >= 3
       /\ ToLower(tok[1]) \in LowerLetters
       /\ tok[2] \in {"#", "b"}
       /\ tok[3] \in OctaveDigits
       /\ DocumentedSuffix(SubSeq(tok, 4, Len(tok)))

\* ------------------------------------------------------------------------
\* C21.  A single-note token is accepted (parses to a note) iff it has the
\* documented shape: letter, optional # or b, one octave digit 0-8,
\* optional @velocity, optional :gate, optional ~, in this order and
\* nothing else; every other token parses to a rest.  (The parsed text is
\* "tok nxt"; the step of tok is step 1.)
\* ------------------------------------------------------------------------
C21_NoteShape ==
    [][\A tok \in NoteTokens : \A nxt \in NextTokens :
          Parse(TextNote(tok, nxt))
              => /\ Len(tracks'[1].steps) = 2
                 /\ tracks'[1].steps[1].type \in {"note", "rest"}
                 /\ tracks'[1].steps[1].type = "note" <=> DocumentedNote(tok)]_vars

\* ------------------------------------------------------------------------
\* The parser over velocity and gate literals
\* ------------------------------------------------------------------------
ModifierValues == {0, 1, 50, 99, 100, 101, 127, 250, 999, 1000}

\* oscillator lead / sequence c4@v:g [e4@v,g4:g~]
TextModifiers(v, g) ==
    <<Osc("lead"),
      Seqn(<< <<"c", "4", "@">> \o NumWord(v) \o <<":">> \o NumWord(g),
              <<"[", "e", "4", "@">> \o NumWord(v) \o <<",", "g", "4", ":">>
                  \o NumWord(g) \o <<"~", "]">> >>)>>

\* one parse by a new sequencer
NextModifiers ==
    /\ lastOp.kind = "new"
    /\ \E v \in ModifierValues : \E g \in ModifierValues : Parse(TextModifiers(v, g)) /\ UNCHANGED <<engine, single>>

SpecModifiers == Init /\ [][NextModifiers]_vars

\* the NoteEvents of a step
NotesIn(step) == {GetStepNotes(step)[k] : k \in 1..Len(GetStepNotes(step))}

NoteEventsOf(ts) ==
    UNION {UNION {NotesIn(ts[t].steps[i]) : i \in 1..Len(ts[t].steps)} :
           t \in 1..Len(ts)}

\* ------------------------------------------------------------------------
\* C22.  After a parse every NoteEvent has 0 <= velocity <= 100 and
\* 0 <= gate <= 100: a literal above 100 is clamped to 100, the token is
\* not rejected and the literal is not kept as written.  (The parsed text
\* is "c4@v:g [e4@v,g4:g~]".)
\* ------------------------------------------------------------------------
C22_ModifiersClamped ==
    [][\A v \in ModifierValues : \A g \in ModifierValues :
          Parse(TextModifiers(v, g))
              => /\ \A n \in NoteEventsOf(tracks') :
                       n.velocity \in 0..100 /\ n.gate \in 0..100
                 /\ tracks'[1].steps[1].type = "note"
                 /\ tracks'[1].steps[1].velocity = Min(100, v)
                 /\ tracks'[1].steps[1].gate = Min(100, g)
                 /\ tracks'[1].steps[2].type = "chord"
                 /\ Len(tracks'[1].steps[2].notes) = 2
                 /\ tracks'[1].steps[2].notes[1].velocity = Min(100, v)
                 /\ tracks'[1].steps[2].notes[2].gate = Min(100, g)]_vars

\* ------------------------------------------------------------------------
\* The parser over bpm and swing literals
\* ------------------------------------------------------------------------
BpmLiterals == {0, 1, 20, 59, 60, 61, 120, 199, 200, 201, 999}

SwingLiterals == {0, 1, 10, 25, 33, 50, 67, 75, 99, 100, 101, 250, 999}

\* one parse by a new sequencer of bpm b / swing s / oscillator lead /
\* sequence - - - -
NextTempo ==
    /\ lastOp.kind = "new"
    /\ \E b \in BpmLiterals : \E s \in SwingLiterals : Parse(TextRests(b, s)) /\ UNCHANGED <<engine, single>>

SpecTempo == Init /\ [][NextTempo]_vars

\* ------------------------------------------------------------------------
\* C23.  After a parse the bpm lies in 60..200: the value of a bpm line
\* below 60 becomes 60, a value above 200 becomes 200, so that the step
\* duration 60000 / bpm / 4 is finite and positive.
\* ------------------------------------------------------------------------
C23_BpmClamped ==
    [][\A b \in BpmLiterals : \A s \in SwingLiterals :
          Parse(TextRests(b, s))
              => /\ bpm' \in 60..200
                 /\ bpm' = Max(60, Min(200, b))
                 /\ StepDuration(bpm') > 0]_vars

\* ------------------------------------------------------------------------
\* The scheduler over texts with bpm and swing lines in every place
\* ------------------------------------------------------------------------
BpmLine(b) == Line("bpm", "", <<NumWord(b)>>)

SwingLine(s) == Line("swing", "", <<NumWord(s)>>)

\* what may stand before the oscillator line, between the oscillator and
\* the sequence line, and after the sequence line (<<>> for nothing)
LinesBefore == {<<>>, <<BpmLine(90)>>, <<SwingLine(30)>>}

LinesBetween == {<<>>, <<BpmLine(150)>>, <<SwingLine(120)>>}

LinesAfter == {<<>>, <<BpmLine(90)>>, <<SwingLine(30)>>}

\* l1 / oscillator lead / l2 / sequence - - / l3
TextOrder(l1, l2, l3) ==
    l1 \o <<Osc("lead")>> \o l2 \o <<Seqn(<< <<"-">>, <<"-">> >>)>> \o l3

TextsOrder == {TextOrder(l1, l2, l3) : l1 \in LinesBefore, l2 \in LinesBetween,
                                       l3 \in LinesAfter}

NextOrder == NextOver(TextsOrder)

SpecOrder == Init /\ [][NextOrder]_vars

\* the indexes of the lines of a text with a head
LinesWith(text, head) == {i \in 1..Len(text) : text[i].head = head}

\* the number on the last line of a text with a head, or a default
LastValue(text, head, default) ==
    IF LinesWith(text, head) = {} THEN default
    ELSE ParseInt(text[CHOOSE i \in LinesWith(text, head) :
                         \A j \in LinesWith(text, head) : j <= i].words[1])

\* ------------------------------------------------------------------------
\* C24.  The bpm and the swing after parse(text) are the values of the last
\* bpm line and of the last swing line of the text, wherever the lines
\* stand relative to the oscillator and sequence lines; 120 and 50 when the
\* text has no such line, whatever an earlier parse or setBpm left; the
\* swing is clamped into 0..100.
\* ------------------------------------------------------------------------
C24_LastLineWins ==
    [][\A text \in TextsOrder :
          Parse(text)
              => /\ bpm' = LastValue(text, "bpm", 120)
                 /\ swing' = Max(0, Min(100, LastValue(text, "swing", 50)))]_vars

\* a text without bpm line and with "swing 120" after the oscillator line
\* was parsed while the timer of an earlier text with "bpm 90" runs
C24_Witness ==
    /\ lastOp.kind = "parse"
    /\ isPlaying
    /\ stepDuration = StepDuration(90)
    /\ bpm = 120
    /\ swing = 100

\* ------------------------------------------------------------------------
\* The scheduler over texts of different shapes
\* ------------------------------------------------------------------------
\* the empty text
TextEmpty == <<>>

\* bpm 90 / swing 40 / sequence c4~ -   (no oscillator line)
TextTempo ==
    <<BpmLine(90), SwingLine(40), Seqn(<< <<"c", "4", "~">>, <<"-">> >>)>>

\* oscillator lead / sequence - - / oscillator bass / sequence - - -
TextPair ==
    <<Osc("lead"), Seqn(<< <<"-">>, <<"-">> >>),
      Osc("bass"), Seqn(<< <<"-">>, <<"-">>, <<"-">> >>)>>

TextsShapes == {TextEmpty, TextNoSteps, TextTempo, TextPair}

\* parse, play, the ticks and stop (no text has a swing above 50: no
\* one-shot timer is set)
NextShapes ==
    \/ \E text \in TextsShapes : Parse(text) /\ UNCHANGED <<engine, single>>
    \/ Play /\ UNCHANGED <<engine, single>>
    \/ Tick /\ UNCHANGED <<engine, single>>
    \/ Stop /\ UNCHANGED <<engine, single>>

SpecShapes == Init /\ [][NextShapes]_vars

\* a note step without modifiers other than a tie, of a MIDI number
PlainNote(name, midi, tie) ==
    [type |-> "note", noteName |-> name, frequency |-> midi, velocity |-> 100,
     gate |-> 100, tie |-> tie, slideTo |-> Null]

\* the patterns of these texts, written out
PatternOfEmpty == [bpm |-> 120, swing |-> 50, tracks |-> <<>>, maxSteps |-> 0]

PatternOfNoSteps ==
    [bpm |-> 120, swing |-> 50,
     tracks |-> <<[oscillator |-> "lead", steps |-> <<>>]>>, maxSteps |-> 0]

PatternOfTempo ==
    [bpm |-> 90, swing |-> 40,
     tracks |-> <<[oscillator |-> NoName,
                   steps |-> <<PlainNote(<<"c", "4">>, 60, TRUE), Rest>>]>>,
     maxSteps |-> 2]

PatternOfPair ==
    [bpm |-> 120, swing |-> 50,
     tracks |-> <<[oscillator |-> "lead",
                   steps |-> <<Rest, Rest>>],
                  [oscillator |-> "bass", steps |-> <<Rest, Rest, Rest>>]>>,
     maxSteps |-> 3]

PatternOf(text) ==
    CASE text = TextEmpty -> PatternOfEmpty
      [] text = TextNoSteps -> PatternOfNoSteps
      [] text = TextTempo -> PatternOfTempo
      [] OTHER -> PatternOfPair

\* ------------------------------------------------------------------------
\* C26.  parse(text) is a function of the text alone: whenever a text is
\* parsed (first, again, after another text, while playing or stopped)
\* the bpm, the swing, the tracks with their steps and the pattern length
\* it commits are the same pattern, the one written out above; the length
\* is the maximum step count over the tracks, 0 when there are none.
\* ------------------------------------------------------------------------
C26_ParseIsFunction ==
    [][\A text \in TextsShapes :
          Parse(text)
              => [bpm |-> bpm', swing |-> swing', tracks |-> tracks',
                  maxSteps |-> maxSteps'] = PatternOf(text)]_vars

\* the text of two tracks, without bpm line, was parsed while the timer
\* of the text with "bpm 90" runs with a tied voice open
C26_Witness ==
    /\ lastOp.kind = "parse"
    /\ isPlaying
    /\ stepDuration = StepDuration(90)
    /\ EntriesIn(activeNotes) # {}
    /\ bpm = 120
    /\ swing = 50
    /\ maxSteps = 3

\* ------------------------------------------------------------------------
\* The parser over every pitch
\* ------------------------------------------------------------------------
\* "", "#" or "b" after the letter
Accidentals == {<<>>, <<"#">>, <<"b">>}

\* oscillator lead / sequence <letter><accidental><octave>
TextPitch(letter, acc, octave) ==
    <<Osc("lead"), Seqn(<< <<letter>> \o acc \o <<octave>> >>)>>

\* one parse by a new sequencer
NextPitches ==
    /\ lastOp.kind = "new"
    /\ \E letter \in LowerLetters : \E acc \in Accidentals : \E octave \in Digits :
          Parse(TextPitch(letter, acc, octave)) /\ UNCHANGED <<engine, single>>

SpecPitches == Init /\ [][NextPitches]_vars

\* the semitone of a letter above c
OffsetOf(letter) ==
    CASE letter = "c" -> 0 [] letter = "d" -> 2 [] letter = "e" -> 4
      [] letter = "f" -> 5 [] letter = "g" -> 7 [] letter = "a" -> 9
      [] letter = "b" -> 11

\* the MIDI number of a pitch
MidiOf(letter, acc, octave) ==
    (DigitVal(octave) + 1) * 12 + OffsetOf(letter)
        + (IF acc = <<"#">> THEN 1 ELSE 0) - (IF acc = <<"b">> THEN 1 ELSE 0)

\* ------------------------------------------------------------------------
\* C27.  For every letter a-g, accidental (none, #, b) and octave digit the
\* parsed note has the frequency of the MIDI number
\* (octave + 1) * 12 + offset(letter), + 1 for a sharp, - 1 for a flat, with
\* offsets c 0, d 2, e 4, f 5, g 7, a 9, b 11: a4 has MIDI number 69
\* (440 Hz), c4 has 60, and two spellings of one MIDI number (c#4 and db4)
\* have the same frequency.  (A frequency is held as the MIDI number m it
\* is computed from, 440 * 2^((m - 69) / 12).)
\* ------------------------------------------------------------------------
C27_MidiNumber ==
    [][\A letter \in LowerLetters : \A acc \in Accidentals : \A octave \in Digits :
          Parse(TextPitch(letter, acc, octave))
              => /\ tracks'[1].steps[1].type = "note"
                 /\ tracks'[1].steps[1].noteName = <<letter>> \o acc \o <<octave>>
                 /\ tracks'[1].steps[1].frequency = MidiOf(letter, acc, octave)
                 /\ (letter = "a" /\ acc = <<>> /\ octave = "4")
                       => tracks'[1].steps[1].frequency = 69
                 /\ (letter = "c" /\ acc = <<>> /\ octave = "4")
                       => tracks'[1].steps[1].frequency = 60
                 /\ (letter = "d" /\ acc = <<"b">> /\ octave = "4")
                       => tracks'[1].steps[1].frequency =
                             ParseText(TextPitch("c", <<"#">>, "4")).tracks[1].steps[1].frequency]_vars

\* cb0 was parsed: the flat takes it below the c of its octave
C27_Witness ==
    /\ lastOp.kind = "parse"
    /\ Len(tracks) = 1
    /\ tracks[1].steps[1].noteName = <<"c", "b", "0">>
    /\ tracks[1].steps[1].frequency = 11

\* ------------------------------------------------------------------------
\* The scheduler over a chord that lists a note twice
\* ------------------------------------------------------------------------
\* oscillator lead / sequence [c4,c4~] -
TextTwice ==
    <<Osc("lead"),
      Seqn(<< <<"[", "c", "4", ",", "c", "4", "~", "]">>, <<"-">> >>)>>

TextsTwice == {TextTwice, TextSwing}

NextTwice == NextOver(TextsTwice)

SpecTwice == Init /\ [][NextTwice]_vars

\* the note names of a sequence of notes are pairwise distinct
DistinctNames(notes) ==
    \A i \in 1..Len(notes) : \A j \in 1..Len(notes) :
        notes[i].noteName = notes[j].noteName => i = j

\* the start commands of a track among the commands of an operation
StartsOf(cs, t) == SelectSeq(cs, LAMBDA c : c.op = "start" /\ c.track = t)

\* ------------------------------------------------------------------------
\* C28.  Every chord step of the parsed tracks has pairwise distinct note
\* names, and the commands of one operation start at most one voice per
\* note name and track.
\* ------------------------------------------------------------------------
C28_ChordNamesDistinct ==
    /\ \A t \in 1..Len(tracks) : \A i \in 1..Len(tracks[t].steps) :
          tracks[t].steps[i].type = "chord" => DistinctNames(tracks[t].steps[i].notes)
    /\ \A t \in 1..Len(tracks) : DistinctNames(StartsOf(cmds, t))

\* ------------------------------------------------------------------------
\* The audio engine alone
\* ------------------------------------------------------------------------
\* initializeMaster()
InitializeMaster ==
    /\ engine.masters < MaxMasters
    /\ engine' = InitializeMasterOf(engine)
    /\ UNCHANGED seqVars

\* createNote(noteName, frequency, null, oscillatorFilter) at the time now;
\* the engine is in use once initializeAudioEngine has called
\* initializeMaster (lines 739-755)
CreateNote(noteName, oscillatorFilter, now) ==
    /\ engine.masters > 0
    /\ Len(engine.notes) < MaxVoices
    /\ engine' = CreateNoteOf(engine, noteName, oscillatorFilter, now)
    /\ UNCHANGED seqVars

\* stopNote(noteInstance) with note v
StopNote(v) ==
    /\ engine.notes[v].stopCalls < MaxStopCalls
    /\ engine' = StopNoteOf(engine, v)
    /\ UNCHANGED seqVars

\* the timer of a stop() of note v runs
StopTimer(v) ==
    /\ engine.notes[v].timers # <<>>
    /\ engine' = StopSources(engine, v)
    /\ UNCHANGED seqVars

\* the note names, oscillator filters and times createNote is called with
EngineNoteNames == {<<"c", "4">>, <<"e", "4">>}

OscillatorFilters == {NoName, "lead", "bass", "nosuch"}

Times == {1, 2}

InitEngine == NewSequencer /\ \E store \in Stores : engine = NewAudioEngine(store)

NextEngine ==
    \/ InitializeMaster
    \/ \E n \in EngineNoteNames : \E f \in OscillatorFilters : \E now \in Times :
          CreateNote(n, f, now)
    \/ \E v \in 1..Len(engine.notes) : StopNote(v)
    \/ \E v \in 1..Len(engine.notes) : StopTimer(v)

SpecEngine == InitEngine /\ [][NextEngine]_vars

\* ------------------------------------------------------------------------
\* Vocabulary of the properties of the engine
\* ------------------------------------------------------------------------
\* the nodes a note created
NodesOf(e, v) == {i \in 1..Len(e.nodes) : e.nodes[i].owner = v}

\* the edges that start or end in a node of a note
EdgesOf(e, v) == {d \in e.edges : d.from \in NodesOf(e, v) \/ d.to \in NodesOf(e, v)}

\* stop() was called on a note and every timer it set has run
Released(e, v) == e.notes[v].stopCalls > 0 /\ e.notes[v].timers = <<>>

\* ------------------------------------------------------------------------
\* C29.  Once stop was called on a voice and the timer it set for the
\* longest release has run, no node the voice owns (oscillators, envelope
\* gains, LFOs and their depth gains, distortion nodes, the voice's gain)
\* is connected in the graph.
\* ------------------------------------------------------------------------
C29_StoppedVoiceDisconnected ==
    \A v \in 1..Len(engine.notes) :
        Released(engine, v) => EdgesOf(engine, v) = {}

\* ------------------------------------------------------------------------
\* C30.  A reference to a component that does not exist raises no error:
\* initializeMaster and createNote return normally, whatever the store's
\* references name, and the master chain has no distortion when the
\* master's distortion reference is unknown.
\* ------------------------------------------------------------------------
C30_UnknownReferenceSkipped ==
    /\ ~engine.thrown
    /\ (/\ engine.masters > 0
        /\ IsRef(engine.store.master.distortion)
        /\ GetComponent(engine.store, engine.store.master.distortion.value) = Null)
       => MasterInput(engine) = (IF engine.masterCompressor # NoNode
                                 THEN engine.masterCompressor
                                 ELSE IF engine.masterFilter # NoNode
                                 THEN engine.masterFilter ELSE engine.masterGain)

\* ------------------------------------------------------------------------
\* The sequencer driving the engine: play(triggerNote, stopNote) with
\* triggerNote = createNote and stopNote = stopNote of the engine.  The
\* handle triggerNote returns is the note; note number h is the h-th note
\* created.
\* ------------------------------------------------------------------------
\* the callbacks cs of one operation, run in order on the engine, with the
\* tracks ts of the sequencer at the time now
RECURSIVE Callbacks(_, _, _, _)
Callbacks(e, cs, ts, now) ==
    IF cs = <<>> THEN e
    ELSE Callbacks(
             IF Head(cs).op = "start"
             THEN CreateNoteOf(e, Head(cs).noteName, ts[Head(cs).track].oscillator, now)
             ELSE IF Head(cs).op = "stop" THEN StopNoteOf(e, Head(cs).noteId)
             ELSE e,
             Tail(cs), ts, now)

\* sequence c4 - / oscillator lead / sequence e4 -
TextCompat ==
    <<Seqn(<< <<"c", "4">>, <<"-">> >>), Osc("lead"),
      Seqn(<< <<"e", "4">>, <<"-">> >>)>>

\* oscillator bass / sequence c4~ c4 / oscillator nosuch / sequence e4
TextNamed ==
    <<Osc("bass"), Seqn(<< <<"c", "4", "~">>, <<"c", "4">> >>),
      Osc("nosuch"), Seqn(<< <<"e", "4">> >>)>>

TextsWired == {TextCompat, TextNamed}

\* initializeAudioEngine, then new Sequencer()
InitWired == NewSequencer /\ engine = InitializeMasterOf(NewAudioEngine(StoreFull))

NextWired ==
    \/ \E text \in TextsWired : Parse(text) /\ UNCHANGED <<engine, single>>
    \/ Play /\ \E now \in Times : engine' = Callbacks(engine, cmds', tracks, now)
          /\ UNCHANGED single
    \/ Tick /\ \E now \in Times : engine' = Callbacks(engine, cmds', tracks, now)
          /\ UNCHANGED single
    \/ Stop /\ \E now \in Times : engine' = Callbacks(engine, cmds', tracks, now)
          /\ UNCHANGED single
    \/ \E v \in 1..Len(engine.notes) : StopTimer(v)

SpecWired == InitWired /\ [][NextWired]_vars

\* the track names of a text, read off its lines: an oscillator line opens
\* a named track, a sequence line with no track open makes one without a
\* name
RECURSIVE TrackNames(_, _)
TrackNames(lines, open) ==
    IF lines = <<>> THEN <<>>
    ELSE IF Head(lines).head = "oscillator"
    THEN <<Head(lines).name>> \o TrackNames(Tail(lines), TRUE)
    ELSE IF Head(lines).head = "sequence" /\ ~open
    THEN <<NoName>> \o TrackNames(Tail(lines), FALSE)
    ELSE TrackNames(Tail(lines), open)

\* the names of the configured oscillator layers, in order
LayerNames(store) == [i \in 1..Len(store.oscillators) |-> store.oscillators[i].name]

\* ------------------------------------------------------------------------
\* C25.  A sequence line before any oscillator line makes a track whose
\* oscillator name is null and a sequence line after an oscillator line
\* fills the track of that name; every voice started for a track is
\* created with the track's oscillator name, and is built with every
\* configured layer when that name is null and with the layer of that
\* name only otherwise.
\* ------------------------------------------------------------------------
C25_TrackOscillator ==
    [][/\ \A text \in TextsWired :
             Parse(text) =>
                 /\ Len(tracks') = Len(TrackNames(text, FALSE))
                 /\ \A t \in 1..Len(tracks') :
                        tracks'[t].oscillator = TrackNames(text, FALSE)[t]
       /\ \A k \in 1..Len(cmds') :
             cmds'[k].op = "start" =>
                 /\ cmds'[k].noteId \in 1..Len(engine'.notes)
                 /\ engine'.notes[cmds'[k].noteId].oscillatorFilter
                        = tracks[cmds'[k].track].oscillator
                 /\ engine'.notes[cmds'[k].noteId].layers
                        = IF tracks[cmds'[k].track].oscillator = NoName
                          THEN LayerNames(engine.store)
                          ELSE SelectSeq(LayerNames(engine.store),
                                   LAMBDA name : name = tracks[cmds'[k].track].oscillator)
      ]_vars

\* both kinds of track have started a voice: one built with both layers
\* for the track without a name, one built with the layer lead only
C25_Witness ==
    /\ Len(tracks) = 2
    /\ tracks[1].oscillator = NoName
    /\ tracks[2].oscillator = "lead"
    /\ \E v, w \in 1..Len(engine.notes) :
          /\ engine.notes[v].oscillatorFilter = NoName
          /\ engine.notes[v].layers = <<"lead", "bass">>
          /\ engine.notes[w].oscillatorFilter = "lead"
          /\ engine.notes[w].layers = <<"lead">>

\* ------------------------------------------------------------------------
\* The master chain in each of its eight configurations
\* ------------------------------------------------------------------------
\* a store whose master has a filter, a compressor, a distortion or not;
\* every reference names a component
StoreMaster(f, c, d) ==
    Store(<<Layer("lead", Null, Null, 0)>>, {"lp", "comp", "fuzz"},
          Master(IF f THEN Ref("lp") ELSE Null, IF c THEN Ref("comp") ELSE Null,
                 IF d THEN Ref("fuzz") ELSE Null, 0))

InitMasters ==
    /\ NewSequencer
    /\ \E f, c, d \in BOOLEAN : engine = NewAudioEngine(StoreMaster(f, c, d))

\* the notes are created one millisecond apart: note v at the time v
NextMasters ==
    \/ InitializeMaster
    \/ \E v \in 1..MaxVoices : CreateNote(<<"c", "4">>, NoName, v) /\ v = Len(engine.notes) + 1
    \/ \E v \in 1..Len(engine.notes) : StopNote(v)
    \/ \E v \in 1..Len(engine.notes) : StopTimer(v)

SpecMasters == InitMasters /\ [][NextMasters]_vars

\* the nodes an audio edge leads to from one of the nodes ns
Successors(e, ns) == {d.to : d \in {x \in e.edges : x.from \in ns /\ x.param = ""}}

\* the nodes the signal of the nodes ns passes, ns included
RECURSIVE Downstream(_, _)
Downstream(e, ns) ==
    IF Successors(e, ns) \subseteq ns THEN ns
    ELSE Downstream(e, ns \cup Successors(e, ns))

\* how many nodes of a kind there are among the nodes ns
CountKind(e, ns, kind) ==
    Cardinality({n \in ns \ {Destination} : e.nodes[n].kind = kind})

\* a stage of the master is configured
Present(attr) == IF IsRef(attr) THEN 1 ELSE 0

\* ------------------------------------------------------------------------
\* C31.  Whatever the master's filter, compressor and distortion, present
\* or not, the gain of a started voice is connected to one node, from
\* which the signal reaches the destination, passes one filter, one
\* compressor and one distortion when that stage is configured and none
\* when it is not, and meets no node without an output.
\* ------------------------------------------------------------------------
C31_MasterChain ==
    \A v \in 1..Len(engine.notes) :
        LET first == Successors(engine, {engine.notes[v].noteGain})
            chain == Downstream(engine, first)
        IN  /\ Cardinality(first) = 1
            /\ Destination \in chain
            /\ \A n \in chain \ {Destination} : Successors(engine, {n}) # {}
            /\ CountKind(engine, chain, "filter") = Present(engine.store.master.filter)
            /\ CountKind(engine, chain, "compressor")
                   = Present(engine.store.master.compressor)
            /\ CountKind(engine, chain, "waveshaper")
                   = Present(engine.store.master.distortion)
            /\ ~engine.thrown

\* a voice was started on a master with all three stages
C31_Witness ==
    /\ engine.store = StoreMaster(TRUE, TRUE, TRUE)
    /\ Len(engine.notes) > 0
    /\ CountKind(engine, Downstream(engine, {engine.notes[1].noteGain}), "waveshaper") = 1
    /\ CountKind(engine, Downstream(engine, {engine.notes[1].noteGain}), "filter") = 1

\* ------------------------------------------------------------------------
\* The envelopes, for configured and unset attributes
\* ------------------------------------------------------------------------
\* the values an envelope attribute is given: not set, 0, or a value
\* of its documented range
SustainValues == {NoValue, 0, 40, 100}
VolumeValues == {NoValue, 0, 80}
AttackValues == {NoValue, 0, 10}
DecayValues == {0, 20}
ReleaseValues == {NoValue, 0, 300}

\* one oscillator and a master with these envelope attributes
StoreEnvelope(volume, attack, decay, sustain, release, masterSustain) ==
    Store(<<WithEnvelope(Layer("lead", Null, Null, NoValue),
                         volume, attack, decay, sustain, release)>>,
          {},
          WithEnvelope(Master(Null, Null, Null, NoValue),
                       NoValue, attack, decay, masterSustain, release))

InitEnvelope ==
    /\ NewSequencer
    /\ \E volume \in VolumeValues, attack \in AttackValues, decay \in DecayValues,
          sustain \in SustainValues, release \in ReleaseValues,
          masterSustain \in SustainValues :
          engine = NewAudioEngine(
                       StoreEnvelope(volume, attack, decay, sustain, release, masterSustain))

NextEnvelope ==
    \/ InitializeMaster
    \/ CreateNote(<<"c", "4">>, NoName, 1)
    \/ \E v \in 1..Len(engine.notes) : StopNote(v)
    \/ \E v \in 1..Len(engine.notes) : StopTimer(v)

SpecEnvelope == InitEnvelope /\ [][NextEnvelope]_vars

\* the value an attribute stands for: the configured one, 0 included, or
\* the default when it is not set
Configured(value, dflt) == IF value = NoValue THEN dflt ELSE value

\* the automation of the gain of a node
RampsOf(e, node) == {e.ramps[i] : i \in {j \in 1..Len(e.ramps) : e.ramps[j].node = node}}

\* the oscillator component of a name
LayerNamed(store, name) ==
    store.oscillators[CHOOSE i \in 1..Len(store.oscillators) :
                          store.oscillators[i].name = name]

\* an envelope that rises to peak in attack ms and falls to sustain
\* hundredths of the peak in decay ms more
IsEnvelope(ramp, peak, sustain, attack, decay) ==
    /\ ramp.events[1].value = 0
    /\ ramp.events[2].value = peak
    /\ ramp.events[2].at - ramp.events[1].at = attack
    /\ ramp.events[3].value * 100 = sustain * peak
    /\ ramp.events[3].at - ramp.events[2].at = decay

\* ------------------------------------------------------------------------
\* C32.  The envelope of every layer of a voice rises from 0 to volume/100
\* of full scale over the configured attack and falls over the configured
\* decay to sustain/100 of that peak, and the envelope of the voice does
\* the same from a peak of full scale with the master's attributes; the
\* release time of a layer is its configured release.  A configured 0 is
\* 0: sustain 0 is silence.
\* ------------------------------------------------------------------------
C32_SustainLevel ==
    \A v \in 1..Len(engine.notes) :
        /\ \A ramp \in RampsOf(engine, engine.notes[v].noteGain) :
              IsEnvelope(ramp, FullScale,
                         Configured(engine.store.master.sustain, 100),
                         Configured(engine.store.master.attack, 100),
                         Configured(engine.store.master.decay, 100))
        /\ \A k \in 1..Len(engine.notes[v].oscillators) :
              LET layer == LayerNamed(engine.store, engine.notes[v].layers[k])
              IN  /\ engine.notes[v].oscillators[k].releaseTime
                         = Configured(layer.release, 500)
                  /\ \A ramp \in RampsOf(engine, engine.notes[v].oscillators[k].envGain) :
                        IsEnvelope(ramp, Configured(layer.volume, 50) * (FullScale \div 100),
                                   Configured(layer.sustain, 100),
                                   Configured(layer.attack, 100),
                                   Configured(layer.decay, 100))

\* the same for the attributes that are not set or not 0
C32_NonZeroLevels ==
    (/\ engine.store.master.sustain # 0
     /\ engine.store.master.attack # 0
     /\ engine.store.master.decay # 0
     /\ \A i \in 1..Len(engine.store.oscillators) :
           /\ engine.store.oscillators[i].sustain # 0
           /\ engine.store.oscillators[i].volume # 0
           /\ engine.store.oscillators[i].attack # 0
           /\ engine.store.oscillators[i].decay # 0
           /\ engine.store.oscillators[i].release # 0)
    => C32_SustainLevel

\* ------------------------------------------------------------------------
\* Texts of different tempo parsed while the sequencer plays
\* ------------------------------------------------------------------------
TextsRetempo == {TextTempo, TextPair}

RetempoValues == {90, 120}

NextRetempo ==
    \/ \E text \in TextsRetempo : Parse(text) /\ UNCHANGED <<engine, single>>
    \/ Play /\ UNCHANGED <<engine, single>>
    \/ Tick /\ UNCHANGED <<engine, single>>
    \/ \E newBpm \in RetempoValues : SetBpm(newBpm) /\ UNCHANGED <<engine, single>>
    \/ Stop /\ UNCHANGED <<engine, single>>

SpecRetempo == Init /\ [][NextRetempo]_vars

\* ------------------------------------------------------------------------
\* C33.  While the sequencer plays, the interval of its recurring timer,
\* which is the stepDuration its steps are played with, is 60000 / bpm / 4
\* ms for its current bpm, also after a parse during playback.
\* ------------------------------------------------------------------------
C33_IntervalFollowsBpm ==
    isPlaying => (intervalId = 1 /\ stepDuration = StepDuration(bpm))

\* ------------------------------------------------------------------------
\* C34.  Each track has a table of its own: a voice started while one
\* track is processed is not stopped while another track is processed, in
\* the same step or a later one (tracks that share an oscillator name or
\* have none included).  Stated for one operation: a handle started for
\* track t is stopped in the same operation by track t only.
\* ------------------------------------------------------------------------
C34_OwnTable ==
    [][\A j \in 1..Len(cmds') : \A k \in (j + 1)..Len(cmds') :
          (/\ cmds'[j].op = "start"
           /\ cmds'[k].op = "stop"
           /\ cmds'[k].track # 0
           /\ cmds'[k].noteId = cmds'[j].noteId)
          => cmds'[k].track = cmds'[j].track]_vars

\* ------------------------------------------------------------------------
\* C35.  Every entry of a table holds a handle that a start returned for
\* the entry's note name with tie and that was not passed to the stop
\* callback since; no handle is passed to the stop callback twice; and
\* once a tick has triggered the notes of its step, every entry of a table
\* names a note of the current step of a track of that table.
\* ------------------------------------------------------------------------
EntryLive(e) ==
    /\ e.noteId \in 1..Len(voices)
    /\ voices[e.noteId].noteName = e.noteName
    /\ voices[e.noteId].tie
    /\ voices[e.noteId].stops = 0

StoppedOnce == \A h \in 1..Len(voices) : voices[h].stops <= 1

EntriesInStep ==
    (/\ lastOp.kind \in {"tick", "timeout"}
     /\ IsNum(currentStep)
     /\ Triggered(lastOp, currentStep, swing, stepDuration))
    => \A i \in 1..Len(activeNotes) : \A j \in 1..Len(activeNotes[i].notes) :
          \E t \in 1..Len(tracks) :
              /\ TrackKey(tracks[t]) = activeNotes[i].key
              /\ Contains(StepAt(tracks[t], currentStep), activeNotes[i].notes[j].noteName)

C35_TableEntriesLive ==
    /\ \A e \in EntriesIn(activeNotes) : EntryLive(e)
    /\ StoppedOnce
    /\ EntriesInStep

\* ------------------------------------------------------------------------
\* C36.  Between two operations there is one live recurring timer when
\* isPlaying is true and none when it is false, and this.intervalId is
\* set exactly when one is live: play() sets one, setBpm() during playback
\* clears it before it sets the next, setBpm() while idle sets none and
\* stop() clears it.
\* ------------------------------------------------------------------------
C36_OneTimerWhilePlaying ==
    /\ intervals = (IF isPlaying THEN 1 ELSE 0)
    /\ (intervalId # 0) <=> isPlaying

\* setBpm() has replaced the timer of a playing sequencer
C36_Witness ==
    /\ lastOp = Op("setBpm", FALSE)
    /\ isPlaying
    /\ intervals = 1

C38_SoundingNotesTracked ==
    \A v \in 1..Len(engine.notes) :
        /\ engine.notes[v].stopCalls = 0
              => \E i \in 1..Len(engine.activeNotes) : engine.activeNotes[i].value = v
        /\ Cardinality({i \in 1..Len(engine.activeNotes) :
                            engine.activeNotes[i].value = v}) <= 1

\* ------------------------------------------------------------------------
\* The single-voice scheduler (part_001, lines 4-312): one handle per
\* track key.  Its parse, play, _startInterval and setBpm are those of
\* sequencer.js; _playCurrentStep and stop differ.  s is the record of the
\* variable single.
\* ------------------------------------------------------------------------
\* this.activeNotes.get(trackKey): the handle, or 0
SingleGet(an, key) ==
    IF \E i \in 1..Len(an) : an[i].key = key
    THEN an[CHOOSE i \in 1..Len(an) : an[i].key = key].noteId
    ELSE 0

\* this.activeNotes.delete(trackKey)
SingleDelete(an, key) == SelectSeq(an, LAMBDA entry : entry.key # key)

\* this.activeNotes.set(trackKey, noteId)
SingleSet(an, key, noteId) ==
    IF \E i \in 1..Len(an) : an[i].key = key
    THEN [i \in 1..Len(an) |->
            IF an[i].key = key THEN [key |-> key, noteId |-> noteId] ELSE an[i]]
    ELSE Append(an, [key |-> key, noteId |-> noteId])

\* shouldContinue (lines 223-225)
SingleShouldContinue(prevStep, step) ==
    /\ prevStep.type = "note"
    /\ prevStep.tie
    /\ step.type = "note"
    /\ step.noteName = prevStep.noteName

\* lines 230-236: the handle of the track key is stopped and deleted
SingleStopActive(s, key, trackIdx) ==
    [s EXCEPT !.cmds = Append(@, Cmd("stop", trackIdx, <<>>, SingleGet(s.activeNotes, key),
                                     FALSE, 0)),
              !.activeNotes = SingleDelete(@, key)]

\* lines 239-256: the note of the step is started and stored when tied
SingleStart(s, step, key, trackIdx) ==
    IF step.type = "note"
    THEN [s EXCEPT !.cmds = Append(@, Cmd("start", trackIdx, step.noteName, s.nextId,
                                          step.tie, 0)),
                   !.nextId = @ + 1,
                   !.activeNotes = IF step.tie THEN SingleSet(@, key, s.nextId) ELSE @]
    ELSE s

\* the body of the loop over this.tracks for one track (lines 208-257)
SingleExecTrack(s, track, trackIdx, cur) ==
    IF SingleGet(s.activeNotes, TrackKey(track)) # 0
    THEN IF SingleShouldContinue(PrevStepAt(track, cur), StepAt(track, cur))
         THEN s
         ELSE SingleStart(SingleStopActive(s, TrackKey(track), trackIdx),
                          StepAt(track, cur), TrackKey(track), trackIdx)
    ELSE SingleStart(s, StepAt(track, cur), TrackKey(track), trackIdx)

\* executeStep (lines 207-258)
RECURSIVE SingleExecuteFrom(_, _, _, _)
SingleExecuteFrom(s, ts, trackIdx, cur) ==
    IF trackIdx > Len(ts) THEN s
    ELSE SingleExecuteFrom(SingleExecTrack(s, ts[trackIdx], trackIdx, cur),
                           ts, trackIdx + 1, cur)

\* _playCurrentStep (lines 200-272) of an operation that starts with no
\* callback invoked; a deferred step leaves the table alone
SinglePlayCurrentStep(s, ts, cur, sw, dur) ==
    Notify(IF SwingDelay(cur, sw, dur) > 0 THEN [s EXCEPT !.cmds = <<>>]
           ELSE SingleExecuteFrom([s EXCEPT !.cmds = <<>>], ts, 1, cur),
           cur)

\* the handles stop() passes to _stopNote (lines 285-290), in Map order
RECURSIVE SingleStopAll(_, _)
SingleStopAll(s, an) ==
    IF an = <<>> THEN s
    ELSE SingleStopAll([s EXCEPT !.cmds = Append(@, Cmd("stop", 0, <<>>, Head(an).noteId,
                                                        FALSE, 0))],
                       Tail(an))

\* play(triggerNote, stopNote) (lines 154-164)
SinglePlay(s) ==
    IF isPlaying \/ Len(tracks) = 0 THEN [s EXCEPT !.cmds = <<>>]
    ELSE SinglePlayCurrentStep([s EXCEPT !.activeNotes = <<>>], tracks, 0, swing,
                               StepDuration(bpm))

\* the callback of setInterval (lines 181-184)
SingleTick(s) ==
    SinglePlayCurrentStep(s, tracks, Advance(currentStep, maxSteps), swing, stepDuration)

\* setBpm(newBpm) (lines 190-195)
SingleSetBpm(s, newBpm) ==
    IF isPlaying
    THEN SinglePlayCurrentStep(s, tracks, currentStep, swing, StepDuration(newBpm))
    ELSE [s EXCEPT !.cmds = <<>>]

\* stop() (lines 277-297)
SingleStop(s) ==
    [Notify(SingleStopAll([s EXCEPT !.cmds = <<>>], s.activeNotes), Stopped)
        EXCEPT !.activeNotes = <<>>]

\* ------------------------------------------------------------------------
\* Both schedulers under the same operations, on patterns of rests and
\* single notes that are parsed before playback starts
\* ------------------------------------------------------------------------
\* oscillator lead / sequence - c4~ c4 / oscillator bass / sequence g2~ g2~ g2
TextTwoVoices ==
    <<Osc("lead"), Seqn(<< <<"-">>, <<"c", "4", "~">>, <<"c", "4">> >>),
      Osc("bass"), Seqn(<< <<"g", "2", "~">>, <<"g", "2", "~">>, <<"g", "2">> >>)>>

\* sequence c4~ c4 / sequence e4~ e4   (no oscillator line)
TextTwoDefaults ==
    <<Seqn(<< <<"c", "4", "~">>, <<"c", "4">> >>),
      Seqn(<< <<"e", "4", "~">>, <<"e", "4">> >>)>>

TextsSingle == {TextPlain, TextLoop, TextTwoVoices, TextTwoDefaults}

\* an operation of the single-voice scheduler that left it as s, within
\* the bounds of the model
SingleCommit(s) == s.nextId <= MaxHandles + 1 /\ single' = s

NextSingle ==
    \/ \E text \in TextsSingle :
          /\ ~isPlaying
          /\ Parse(text)
          /\ SingleCommit([single EXCEPT !.cmds = <<>>])
          /\ UNCHANGED engine
    \/ Play /\ SingleCommit(SinglePlay(single)) /\ UNCHANGED engine
    \/ Tick /\ SingleCommit(SingleTick(single)) /\ UNCHANGED engine
    \/ \E b \in BpmValues :
          SetBpm(b) /\ SingleCommit(SingleSetBpm(single, b)) /\ UNCHANGED engine
    \/ Stop /\ SingleCommit(SingleStop(single)) /\ UNCHANGED engine

SpecSingle == Init /\ [][NextSingle]_vars

\* a callback as both schedulers see it: the stop callback is given the
\* handle only
Seen(c) == IF c.op = "stop" THEN [c EXCEPT !.noteName = <<>>] ELSE c

SeenAll(cs) == [k \in 1..Len(cs) |-> Seen(cs[k])]

\* ------------------------------------------------------------------------
\* C39.  On patterns of rests and single notes the chord-aware scheduler
\* and the single-voice scheduler invoke, in every operation (play, tick,
\* setBpm, stop), the same callbacks in the same order: the same starts
\* with the same note, tie flag and track, the same stops with the same
\* handle and track, the same step notifications.
\* ------------------------------------------------------------------------
C39_SameCommands == SeenAll(cmds) = SeenAll(single.cmds)

\* the same, for the commands of ticks, play and setBpm on patterns whose
\* tracks have keys of their own
C39_SameCommandsOwnKeys ==
    (/\ lastOp.kind # "stop"
     /\ \A t, u \in 1..Len(tracks) : t # u => TrackKey(tracks[t]) # TrackKey(tracks[u]))
    => C39_SameCommands

====
